---- MODULE Spec2Model ----
(***************************************************************************)
(* A model of heinrichb/avc-importer: the 997 acknowledgment codec         *)
(* (pkg/utils/edi_ack.go) and the synchronization cycle                    *)
(* (cmd/avcimporter/main.go).                                              *)
(*                                                                         *)
(* Text is modelled as TLA+ strings, read character by character, so the   *)
(* three regular expressions of edi_ack.go are matched as Go's regexp      *)
(* package matches them: leftmost start, greedy repetition, backtracking.  *)
(***************************************************************************)
EXTENDS Integers, Sequences, FiniteSets, TLC

(***************************************************************************)
(* Characters and strings                                                  *)
(***************************************************************************)
Ch(s, i) == SubSeq(s, i, i)

NL == "\n"

Digits == {"0", "1", "2", "3", "4", "5", "6", "7", "8", "9"}

SetMin(S) == CHOOSE x \in S : \A y \in S : x <= y

SetMax(S) == CHOOSE x \in S : \A y \in S : y <= x

(***************************************************************************)
(* Regular expressions (Go regexp: leftmost-first, greedy).  A pattern is  *)
(* a sequence of elements:                                                 *)
(*   [t |-> "lit",  s |-> text]            the literal text                *)
(*   [t |-> "plus", c |-> class, cap |-> b] one or more of class, greedy   *)
(*   [t |-> "rep",  c |-> class, n |-> k, cap |-> b]  exactly k of class   *)
(* cap marks the element as a capture group.                               *)
(***************************************************************************)
Lit(s) == [t |-> "lit", s |-> s]

Plus(c, cap) == [t |-> "plus", c |-> c, cap |-> cap]

Rep(c, n, cap) == [t |-> "rep", c |-> c, n |-> n, cap |-> cap]

\* "." matches any character but a line feed; [^\*] any character but '*'
\* (a line feed included); [0-9] a decimal digit.
InClass(c, x) ==
  CASE c = "any"     -> x # NL
    [] c = "notstar" -> x # "*"
    [] c = "digit"   -> x \in Digits

\* The number of characters of class c that s holds from position i on.
MaxRun(c, s, i) ==
  SetMin({j \in i..(Len(s) + 1) : j = Len(s) + 1 \/ ~InClass(c, Ch(s, j))}) - i

NoMatch == [ok |-> FALSE, end |-> 0, caps |-> <<>>]

\* Whether the literal text lit stands at position i of s.
LitAt(s, i, lit) ==
  i + Len(lit) - 1 <= Len(s) /\ SubSeq(s, i, i + Len(lit) - 1) = lit

\* Whether pat[k] can start at position i: a literal must stand there.  The
\* lengths and starts a matcher tries are only those that pass this test;
\* the others fail at once.
CanStart(pat, s, k, i) ==
  k > Len(pat) \/ pat[k].t # "lit" \/ LitAt(s, i, pat[k].s)

\* The match of pat[k..] at position i of s that a backtracking matcher
\* finds first.  A greedy repetition (TryLengths) tries its lengths from the
\* longest down and takes the first for which the rest of the pattern
\* matches.
RECURSIVE MatchAt(_, _, _, _, _)
RECURSIVE TryLengths(_, _, _, _, _, _)
MatchAt(pat, s, k, i, caps) ==
  IF k > Len(pat) THEN [ok |-> TRUE, end |-> i, caps |-> caps]
  ELSE
    LET e == pat[k] IN
    CASE e.t = "lit" ->
           IF LitAt(s, i, e.s)
           THEN MatchAt(pat, s, k + 1, i + Len(e.s), caps)
           ELSE NoMatch
      [] e.t = "rep" ->
           IF MaxRun(e.c, s, i) >= e.n
           THEN MatchAt(pat, s, k + 1, i + e.n,
                        IF e.cap THEN Append(caps, SubSeq(s, i, i + e.n - 1))
                        ELSE caps)
           ELSE NoMatch
      [] e.t = "plus" ->
           TryLengths(pat, s, k, i, caps,
                      {j \in 1..MaxRun(e.c, s, i) : CanStart(pat, s, k + 1, i + j)})

TryLengths(pat, s, k, i, caps, lengths) ==
  IF lengths = {} THEN NoMatch
  ELSE
    LET j == SetMax(lengths)
        r == MatchAt(pat, s, k + 1, i + j,
                     IF pat[k].cap THEN Append(caps, SubSeq(s, i, i + j - 1))
                     ELSE caps)
    IN IF r.ok THEN r ELSE TryLengths(pat, s, k, i, caps, lengths \ {j})

\* The leftmost start among starts at which pat matches, with its match.
RECURSIVE TryStarts(_, _, _)
TryStarts(pat, s, starts) ==
  IF starts = {} THEN <<>>
  ELSE
    LET i == SetMin(starts)
        m == MatchAt(pat, s, 1, i, <<>>)
    IN IF m.ok THEN <<SubSeq(s, i, m.end - 1)>> \o m.caps
       ELSE TryStarts(pat, s, starts \ {i})

\* regexp.FindStringSubmatch: the captures of the leftmost match, with the
\* whole match first; the empty sequence (nil) when nothing matches.
FindStringSubmatch(pat, s) ==
  TryStarts(pat, s, {i \in 1..Len(s) : CanStart(pat, s, 1, i)})

\* isaRe with a date of any width: ([0-9]+) in place of ([0-9]{6}).
isaRe_AnyWidthDate ==
  << Lit("ISA*00*"), Plus("any", FALSE), Lit("*00*"), Plus("any", FALSE),
     Lit("*ZZ*"), Plus("notstar", TRUE), Lit("*ZZ*"), Plus("notstar", TRUE),
     Lit("*"), Plus("digit", TRUE), Lit("*"), Rep("digit", 4, TRUE),
     Lit("*U*00400*"), Plus("digit", TRUE), Lit("*") >>

isaRe ==
  << Lit("ISA*00*"), Plus("any", FALSE), Lit("*00*"), Plus("any", FALSE),
     Lit("*ZZ*"), Plus("notstar", TRUE), Lit("*ZZ*"), Plus("notstar", TRUE),
     Lit("*"), Rep("digit", 6, TRUE), Lit("*"), Rep("digit", 4, TRUE),
     Lit("*U*00400*"), Plus("digit", TRUE), Lit("*") >>

gsRe ==
  << Lit("GS*PO*"), Plus("notstar", TRUE), Lit("*"), Plus("notstar", TRUE),
     Lit("*"), Rep("digit", 8, TRUE), Lit("*"), Rep("digit", 4, TRUE),
     Lit("*"), Plus("digit", TRUE), Lit("*X") >>

stRe == << Lit("ST*850*"), Plus("digit", TRUE) >>

(***************************************************************************)
(* time.Now() and Time.Format (edi_ack.go:72-74)                           *)
(***************************************************************************)
\* The instants the clock may show when a build reads it.
Clocks ==
  << [year |-> 2025, month |-> 5,  day |-> 8, hour |-> 15, minute |-> 40],
     [year |-> 2026, month |-> 11, day |-> 4, hour |-> 9,  minute |-> 5] >>

Digit(d) == SubSeq("0123456789", d + 1, d + 1)

\* A number below 100 as two decimal digits, zero-padded ("06", "01", ...).
TwoDigits(n) == Digit((n % 100) \div 10) \o Digit(n % 10)

\* strconv of a small integer, as fmt's %d prints it.
Itoa(n) ==
  IF n < 0 THEN "-" \o Digit(-n)
  ELSE IF n < 10 THEN Digit(n) ELSE TwoDigits(n)

\* now.Format("060102"): YYMMDD
isaDate(now) == TwoDigits(now.year) \o TwoDigits(now.month) \o TwoDigits(now.day)

\* now.Format("1504"): HHMM
isaTime(now) == TwoDigits(now.hour) \o TwoDigits(now.minute)

(***************************************************************************)
(* Generate997 (edi_ack.go:47-95)                                          *)
(***************************************************************************)
\* fmt.Sprintf of the ISA header.
isa(senderID, date, time, origInterchangeCtrl) ==
  "ISA*00*          *00*          *ZZ*AMAZON         *ZZ*" \o senderID
    \o "*" \o date \o "*" \o time \o "*U*00400*" \o origInterchangeCtrl
    \o "*0*T*>~" \o NL

\* gs without its segment terminator.
gs_NoTerminator(senderID, origDate, origTime, origGroupCtrl) ==
  "GS*FA*AMAZON*" \o senderID \o "*" \o origDate \o "*" \o origTime \o "*"
    \o origGroupCtrl \o "*X*004010" \o NL

\* fmt.Sprintf of the GS header.
gs(senderID, origDate, origTime, origGroupCtrl) ==
  "GS*FA*AMAZON*" \o senderID \o "*" \o origDate \o "*" \o origTime \o "*"
    \o origGroupCtrl \o "*X*004010~" \o NL

\* body with AK1 echoing the transaction-set control number.
body_Ak1EchoesSet(origSetCtrl, origGroupCtrl) ==
  "ST*997*" \o origSetCtrl \o "~" \o NL
    \o "AK1*PO*" \o origSetCtrl \o "~" \o NL
    \o "AK9*A*1*1*1~" \o NL

\* ST, AK1, AK9
body(origSetCtrl, origGroupCtrl) ==
  "ST*997*" \o origSetCtrl \o "~" \o NL
    \o "AK1*PO*" \o origGroupCtrl \o "~" \o NL
    \o "AK9*A*1*1*1~" \o NL

\* trailers with GE echoing the interchange control number.
trailers_GeEchoesInterchange(origSetCtrl, origGroupCtrl, origInterchangeCtrl) ==
  "SE*6*" \o origSetCtrl \o "~" \o NL
    \o "GE*1*" \o origInterchangeCtrl \o "~" \o NL
    \o "IEA*1*" \o origInterchangeCtrl \o "~"

\* trailers closing the envelopes outermost first.
trailers_IeaFirst(origSetCtrl, origGroupCtrl, origInterchangeCtrl) ==
  "IEA*1*" \o origInterchangeCtrl \o "~" \o NL
    \o "GE*1*" \o origGroupCtrl \o "~" \o NL
    \o "SE*6*" \o origSetCtrl \o "~"

\* SE, GE, IEA
trailers(origSetCtrl, origGroupCtrl, origInterchangeCtrl) ==
  "SE*6*" \o origSetCtrl \o "~" \o NL
    \o "GE*1*" \o origGroupCtrl \o "~" \o NL
    \o "IEA*1*" \o origInterchangeCtrl \o "~"

\* build with the date and time of the inbound ISA header in the new one.
build_InboundStamp(m, m2, m3, senderID, now) ==
  isa(senderID, m[4], m[5], m[6])
    \o gs(senderID, m2[4], m2[5], m2[6])
    \o body(m3[2], m2[6])
    \o trailers(m3[2], m2[6], m[6])

\* The text of the acknowledgment, given the three matches.
build(m, m2, m3, senderID, now) ==
  isa(senderID, isaDate(now), isaTime(now), m[6])
    \o gs(senderID, m2[4], m2[5], m2[6])
    \o body(m3[2], m2[6])
    \o trailers(m3[2], m2[6], m[6])

\* Generate997(in, senderID) with the clock value time.Now() returns: the
\* pair (text, error), err = "" standing for a nil error.  A Go submatch
\* slice m[0..5] is the sequence m[1..6] here.
Generate997(in, senderID, now) ==
  LET m == FindStringSubmatch(isaRe, in) IN
  IF Len(m) < 6
  THEN [text |-> "",
        err  |-> "invalid ISA segment: expected 5 captures, got "
                   \o Itoa(Len(m) - 1)]
  ELSE
    LET m2 == FindStringSubmatch(gsRe, in) IN
    IF Len(m2) < 6
    THEN [text |-> "",
          err  |-> "invalid GS segment: expected 5 captures, got "
                     \o Itoa(Len(m2) - 1)]
    ELSE
      LET m3 == FindStringSubmatch(stRe, in) IN
      IF Len(m3) < 2
      THEN [text |-> "",
            err  |-> "invalid ST segment: could not find control number"]
      ELSE [text |-> build(m, m2, m3, senderID, now), err |-> ""]

(***************************************************************************)
(* Inbound documents: the texts Generate997 is applied to.  A document is  *)
(* described by a record and rendered to text; the headers follow the      *)
(* inbound format (ISA, GS*PO, ST*850), or deviate from it as the variant  *)
(* says.                                                                   *)
(***************************************************************************)
\* The most interchanges one inbound document holds.
MaxInterchanges == 2

\* Date and time of the inbound ISA header.
InboundStamps == << <<"250508", "1540">>, <<"250509", "0710">> >>

IsaVariants ==
  {"ok", "missing", "noReceiver", "shortDate", "longTime", "alphaCtrl",
   "dropLast", "extraField"}

GsVariants == {"ok", "missing", "wrongType", "shortDate", "dropLast"}

StVariants == {"ok", "missing", "noCtrl", "extraField"}

\* The control number, date and time of the k-th interchange of a document:
\* the first carries the record's values, a later one its own.
NthCtrl(ctrl, k) == IF k = 1 THEN ctrl ELSE ctrl \o Digit(k)

GsDate(k) == "2025050" \o Digit(k)

GsTime(k) == "154" \o Digit(k)

IsaSegment(v, stamp, ctrl) ==
  LET auth == "ISA*00*          *00*          "
      ids  == "*ZZ*AMAZON         *ZZ*1691449        "
      date == InboundStamps[stamp][1]
      time == InboundStamps[stamp][2]
      seg(a, i, d, t, c, rest) ==
        a \o i \o "*" \o d \o "*" \o t \o "*U*00400*" \o c \o rest
  IN CASE v = "ok"         -> seg(auth, ids, date, time, ctrl, "*0*T*>")
       [] v = "missing"    -> ""
       [] v = "noReceiver" ->
            seg(auth, "*ZZ*AMAZON         ", date, time, ctrl, "*0*T*>")
       [] v = "shortDate"  ->
            seg(auth, ids, SubSeq(date, 1, 5), time, ctrl, "*0*T*>")
       [] v = "longTime"   -> seg(auth, ids, date, time \o "0", ctrl, "*0*T*>")
       [] v = "alphaCtrl"  -> seg(auth, ids, date, time, "A" \o ctrl, "*0*T*>")
       [] v = "dropLast"   -> seg(auth, ids, date, time, ctrl, "*0*T")
       [] v = "extraField" ->
            seg(auth \o "*XX", ids, date, time, ctrl, "*0*T*>")

GsSegment(v, k, ctrl) ==
  LET seg(type, ids, d, rest) ==
        "GS*" \o type \o ids \o "*" \o d \o "*" \o GsTime(k) \o "*" \o ctrl
          \o rest
  IN CASE v = "ok"        -> seg("PO", "*AMAZON*1691449", GsDate(k), "*X*004010")
       [] v = "missing"   -> ""
       [] v = "wrongType" -> seg("PR", "*AMAZON*1691449", GsDate(k), "*X*004010")
       [] v = "shortDate" ->
            seg("PO", "*AMAZON*1691449", SubSeq(GsDate(k), 3, 8), "*X*004010")
       [] v = "dropLast"  -> seg("PO", "*AMAZON*1691449", GsDate(k), "*X")

StSegment(v, ctrl) ==
  CASE v = "ok"         -> "ST*850*" \o ctrl
    [] v = "missing"    -> ""
    [] v = "noCtrl"     -> "ST*850"
    [] v = "extraField" -> "ST*850*" \o ctrl \o "*X"

\* A segment with its terminator; in the "lines" layout a line feed
\* follows each terminator, in the "single" layout nothing does.
Terminated(seg, layout) ==
  IF seg = "" THEN ""
  ELSE seg \o "~" \o (IF layout = "lines" THEN NL ELSE "")

Interchange(d, k) ==
  LET T(seg) == Terminated(seg, d.layout) IN
  T(IsaSegment(d.isaV, d.stamp, NthCtrl(d.isaCtrl, k)))
    \o T(GsSegment(d.gsV, k, NthCtrl(d.gsCtrl, k)))
    \o T(StSegment(d.stV, NthCtrl(d.stCtrl, k)))
    \o T("BEG*00*NE*PO" \o Digit(k))
    \o T("SE*3*" \o NthCtrl(d.stCtrl, k))
    \o T("GE*1*" \o NthCtrl(d.gsCtrl, k))
    \o T("IEA*1*" \o NthCtrl(d.isaCtrl, k))

RECURSIVE RenderFrom(_, _)
RenderFrom(d, k) ==
  IF k > d.n THEN "" ELSE Interchange(d, k) \o RenderFrom(d, k + 1)

Render(d) == RenderFrom(d, 1)

Doc(isaV, gsV, stV, isaCtrl, gsCtrl, stCtrl, stamp, layout, n) ==
  [isaV |-> isaV, gsV |-> gsV, stV |-> stV, isaCtrl |-> isaCtrl,
   gsCtrl |-> gsCtrl, stCtrl |-> stCtrl, stamp |-> stamp, layout |-> layout,
   n |-> n]

\* One interchange, the three headers as the inbound format has them.
WellFormedDocs ==
  { Doc("ok", "ok", "ok", ic, gc, sc, st, lay, 1) :
      ic \in {"900000014", "900000021"}, gc \in {"900000014", "77"},
      sc \in {"0001", "0002"}, st \in {1, 2}, lay \in {"lines", "single"} }

\* One interchange, each header as one of its variants.
VariantDocs ==
  { Doc(iv, gv, sv, "900000014", "77", "0001", 1, "lines", 1) :
      iv \in IsaVariants, gv \in GsVariants, sv \in StVariants }

\* Several interchanges in one document.
MultiDocs ==
  { Doc("ok", "ok", "ok", "900000014", "77", "0001", 1, lay, n) :
      lay \in {"lines", "single"}, n \in 2..MaxInterchanges }

Docs == WellFormedDocs \cup VariantDocs \cup MultiDocs

WellFormed(d) == d.isaV = "ok" /\ d.gsV = "ok" /\ d.stV = "ok" /\ d.n = 1

\* The document that differs from d in the date and time of its ISA
\* header(s) only.
Twin(d) == [d EXCEPT !.stamp = 3 - d.stamp]

\* The configured edi.senderId.
SenderIDs == {"1691449", "AC~ME"}

(***************************************************************************)
(* State                                                                   *)
(***************************************************************************)
VARIABLES
  doc,        \* the inbound document handed to Generate997
  senderID,   \* the senderID handed to Generate997
  clock,      \* the instant time.Now() returns, an index into Clocks
  calls,      \* the calls of Generate997 made so far, with their results
  cfg,        \* the configuration config.Load returns
  inbound,    \* the remote inbound directory, as ReadDir lists it
  outbound,   \* the files put into the remote outbound directory, in order
  localFiles, \* the local copies of inbound files: name -> "absent", "partial", "complete"
  ckpt,       \* checkpoint.json in the storage directory
  saved,      \* the order files written to the storage directory, in order
  procs       \* the runs of main (one synchronization cycle each)

ackVars == <<doc, senderID, clock, calls>>

mainVars == <<cfg, inbound, outbound, localFiles, ckpt, saved, procs>>

vars == <<ackVars, mainVars>>

(***************************************************************************)
(* Strings as Go orders them (bytewise): the characters used in order      *)
(* identifiers, in ASCII order.                                            *)
(***************************************************************************)
CharOrder == "0123456789ABCDEFGHIJKLMNOPQRSTUVWXYZ"

Code(c) == CHOOSE i \in 1..Len(CharOrder) : Ch(CharOrder, i) = c

\* a < b
RECURSIVE StrLess(_, _)
StrLess(a, b) ==
  IF b = "" THEN FALSE
  ELSE IF a = "" THEN TRUE
  ELSE IF Ch(a, 1) = Ch(b, 1) THEN StrLess(Tail(a), Tail(b))
  ELSE Code(Ch(a, 1)) < Code(Ch(b, 1))

\* a <= b
StrLeq(a, b) == a = b \/ StrLess(a, b)

(***************************************************************************)
(* The environment of a cycle: configuration, remote directories, feed.    *)
(***************************************************************************)
\* The most runs of main, entries of the inbound directory and records of
\* one feed batch.
MaxCycles == 2

MaxFiles == 2

MaxBatch == 2

Cycles == 1..MaxCycles

\* cfg.EDI.Active, cfg.API.Active, cfg.EDI.DeleteAfterDownload
Configs == [ediActive : BOOLEAN, apiActive : BOOLEAN, deleteAfter : BOOLEAN]

\* The inbound documents on the remote side: a purchase order with the
\* three headers, and one without its ISA header.
GoodDoc == Doc("ok", "ok", "ok", "900000014", "900000014", "0001", 1, "single", 1)

BadDoc == Doc("missing", "ok", "ok", "900000014", "900000014", "0001", 1, "single", 1)

\* What ReadDir may list: files and a directory.
Entries ==
  { [name |-> "PO1.edi", isDir |-> FALSE, doc |-> GoodDoc],
    [name |-> "PO2.edi", isDir |-> FALSE, doc |-> BadDoc],
    [name |-> "archive", isDir |-> TRUE,  doc |-> BadDoc] }

\* The local directory before anything was downloaded.
NoLocalFiles == [n \in {e.name : e \in Entries} |-> "absent"]

RECURSIVE SeqsUpTo(_, _)
SeqsUpTo(S, n) ==
  IF n = 0 THEN {<<>>}
  ELSE LET shorter == SeqsUpTo(S, n - 1)
       IN shorter \cup {Append(q, x) : q \in shorter, x \in S}

Listings ==
  {l \in SeqsUpTo(Entries, MaxFiles) :
     \A i, j \in 1..Len(l) : l[i].name = l[j].name => i = j}

\* purchaseOrderNumber values of the feed
PoNumbers == {"", "10", "9"}

Batches == SeqsUpTo(PoNumbers, MaxBatch)

(***************************************************************************)
(* checkpoint.json as encoding/json writes and reads it                    *)
(* (pkg/utils/checkpoint.go).  A Go string is a sequence of bytes; here    *)
(* each ASCII byte is the character itself and two characters stand for    *)
(* what is no ASCII: BadByte for the single byte 0xFF, which is not valid  *)
(* UTF-8, and Replacement for the code point U+FFFD (bytes EF BF BD).      *)
(***************************************************************************)
BadByte == "#"

Replacement == "?"

Quote == "\""

Backslash == "\\"

\* A string of valid UTF-8 holds no byte that is not part of a code point.
ValidUTF8(s) == \A i \in 1..Len(s) : Ch(s, i) # BadByte

\* An encoder that writes the quote as it is.
EscapeChar_QuoteAsIs(c) ==
  CASE c = Backslash -> Backslash \o Backslash
    [] c = NL        -> Backslash \o "n"
    [] c = "<"       -> Backslash \o "u003c"
    [] c = BadByte   -> Backslash \o "ufffd"
    [] OTHER         -> c

\* json: how the encoder writes one character of a string (HTML escaping
\* is on by default; invalid UTF-8 is written as the escape of U+FFFD).
EscapeChar(c) ==
  CASE c = Quote     -> Backslash \o Quote
    [] c = Backslash -> Backslash \o Backslash
    [] c = NL        -> Backslash \o "n"
    [] c = "<"       -> Backslash \o "u003c"
    [] c = BadByte   -> Backslash \o "ufffd"
    [] OTHER         -> c

RECURSIVE EscapeString(_)
EscapeString(s) ==
  IF s = "" THEN "" ELSE EscapeChar(Ch(s, 1)) \o EscapeString(Tail(s))

\* What Encode writes for checkpoint{LastControlNumber: ctrl} with
\* SetIndent("", "  "): the indented object and a line feed.
EncodeCheckpoint(ctrl) ==
  "{" \o NL \o "  " \o Quote \o "lastControlNumber" \o Quote \o ": "
      \o Quote \o EscapeString(ctrl) \o Quote \o NL \o "}" \o NL

\* json: white space between tokens
IsSpace(c) == c \in {" ", NL, "\t", "\r"}

\* The first position from i on that holds no white space (Len + 1 if none).
SkipSpace(text, i) ==
  SetMin({k \in i..Len(text) : ~IsSpace(Ch(text, k))} \cup {Len(text) + 1})

\* The escapes the decoder is given here: the character and the length of
\* the escape after the backslash.
Unescape(text, i) ==
  LET rest == SubSeq(text, i, Len(text))
      is(e) == Len(rest) >= Len(e) /\ SubSeq(rest, 1, Len(e)) = e
  IN CASE is(Quote)     -> [ok |-> TRUE, c |-> Quote, len |-> 1]
       [] is(Backslash) -> [ok |-> TRUE, c |-> Backslash, len |-> 1]
       [] is("n")       -> [ok |-> TRUE, c |-> NL, len |-> 1]
       [] is("u003c")   -> [ok |-> TRUE, c |-> "<", len |-> 5]
       [] is("ufffd")   -> [ok |-> TRUE, c |-> Replacement, len |-> 5]
       [] OTHER         -> [ok |-> FALSE, c |-> "", len |-> 0]

\* json: a string literal whose opening quote is before position i, read up
\* to its closing quote.  err is "" or the decoder's error; next is the
\* position after the closing quote.
RECURSIVE ScanString(_, _, _)
ScanString(text, i, acc) ==
  IF i > Len(text) THEN [err |-> "unexpected EOF", val |-> "", next |-> i]
  ELSE LET c == Ch(text, i) IN
       IF c = Quote THEN [err |-> "", val |-> acc, next |-> i + 1]
       ELSE IF c = NL \/ c = "\t" \/ c = "\r"
       THEN [err |-> "invalid character in string literal", val |-> "", next |-> i]
       ELSE IF c = BadByte THEN ScanString(text, i + 1, acc \o Replacement)
       ELSE IF c = Backslash
       THEN IF i = Len(text)
            THEN [err |-> "unexpected EOF", val |-> "", next |-> i]
            ELSE LET u == Unescape(text, i + 1) IN
                 IF u.ok THEN ScanString(text, i + 1 + u.len, acc \o u.c)
                 ELSE IF \E n \in 1..5 : SubSeq("ufffd", 1, n) = SubSeq(text, i + 1, Len(text))
                           \/ SubSeq("u003c", 1, n) = SubSeq(text, i + 1, Len(text))
                 THEN [err |-> "unexpected EOF", val |-> "", next |-> i]
                 ELSE [err |-> "invalid character in string escape code",
                       val |-> "", next |-> i]
       ELSE ScanString(text, i + 1, acc \o c)

\* json.NewDecoder(f).Decode(&cp) and cp.LastControlNumber: the first JSON
\* value of the file is read (what follows it is not), an object sets the
\* field from its member lastControlNumber, null leaves it empty, any other
\* value and any text that is no JSON is an error.  Objects of at most one
\* member are read here.
DecodeCheckpoint(text) ==
  LET fail(e) == [err |-> e, val |-> ""]
      at(i) == IF i > Len(text) THEN "" ELSE Ch(text, i)
      i1 == SkipSpace(text, 1)
  IN IF i1 > Len(text) THEN fail("EOF")
     ELSE IF at(i1) = "n"
     THEN IF Len(text) >= i1 + 3 /\ SubSeq(text, i1, i1 + 3) = "null"
          THEN [err |-> "", val |-> ""]
          ELSE IF SubSeq(text, i1, Len(text)) \in {"n", "nu", "nul"}
          THEN fail("unexpected EOF")
          ELSE fail("invalid character in literal null")
     ELSE IF at(i1) = Quote
     THEN LET s == ScanString(text, i1 + 1, "") IN
          IF s.err # "" THEN fail(s.err)
          ELSE fail("cannot unmarshal string into Go value of type utils.checkpoint")
     ELSE IF at(i1) # "{"
     THEN fail("invalid character looking for beginning of value")
     ELSE
       LET i2 == SkipSpace(text, i1 + 1) IN
       IF i2 > Len(text) THEN fail("unexpected EOF")
       ELSE IF at(i2) = "}" THEN [err |-> "", val |-> ""]
       ELSE IF at(i2) # Quote
       THEN fail("invalid character looking for beginning of object key string")
       ELSE
         LET key == ScanString(text, i2 + 1, "") IN
         IF key.err # "" THEN fail(key.err)
         ELSE
           LET i3 == SkipSpace(text, key.next) IN
           IF i3 > Len(text) THEN fail("unexpected EOF")
           ELSE IF at(i3) # ":" THEN fail("invalid character after object key")
           ELSE
             LET i4 == SkipSpace(text, i3 + 1) IN
             IF i4 > Len(text) THEN fail("unexpected EOF")
             ELSE IF at(i4) # Quote
             THEN fail("invalid character looking for beginning of value")
             ELSE
               LET v == ScanString(text, i4 + 1, "") IN
               IF v.err # "" THEN fail(v.err)
               ELSE
                 LET i5 == SkipSpace(text, v.next) IN
                 IF i5 > Len(text) THEN fail("unexpected EOF")
                 ELSE IF at(i5) # "}"
                 THEN fail("invalid character after object key:value pair")
                 ELSE [err |-> "",
                       val |-> IF key.val = "lastControlNumber" THEN v.val
                               ELSE ""]

\* checkpoint.json: whether it exists, and its content.
NoFile == [exists |-> FALSE, text |-> ""]

File(content) == [exists |-> TRUE, text |-> content]

\* The file right after os.Create.
EmptyFile == File("")

\* The file SaveCheckpoint(dir, v) leaves when it returns nil.
JsonFile(v) == File(EncodeCheckpoint(v))

\* A file that holds the beginning of a record only.
CorruptFile == File(SubSeq(EncodeCheckpoint("9"), 1, 27))

\* A file that holds text that is no JSON.
GarbageFile == File("not json")

\* The file after data was written at its beginning (a file just opened by
\* os.Create is written from offset 0): data, and what the file held beyond.
WriteAt0(f, data) ==
  File(IF Len(data) >= Len(f.text) THEN data
       ELSE data \o SubSeq(f.text, Len(data) + 1, Len(f.text)))

\* What a write of a record that fails leaves in the file: a part of it,
\* possibly nothing, not all.  The write stops after no byte, after the
\* first, inside the key, inside the value, after the value, before or
\* after the closing brace.
PartialWrites(content) ==
  {SubSeq(content, 1, n) :
     n \in {0, 1, 12, Len(content) - 4, Len(content) - 3, Len(content) - 2,
            Len(content) - 1}}

\* The payload of the connectivity test file (main.go:86-97).
ConnectivityTestPayload ==
  "ISA*00*          *00*          *ZZ*1691449        *ZZ*AMAZON         *250508*1540*U*00400*900000014*0*T*>~"
    \o "GS*PR*1691449*AMAZON*20250508*1540*900000014*X*004010~"
    \o "ST*855*0001~"
    \o "BAK*00*AC*CONNECTIVITYTEST*20250508~"
    \o "PO1*1*23*UP*23.45*PE*EN*1234567891234~"
    \o "ACK*IA*23*UP~"
    \o "CTT*1*23~"
    \o "SE*6*0001~"
    \o "GE*1*900000014~"
    \o "IEA*1*900000014~"

(***************************************************************************)
(* main (cmd/avcimporter/main.go:39-177).  A run of main is a record: pc   *)
(* is the statement it is at ("idle" before it starts, "done" after the    *)
(* success message, "failed" after os.Exit(1)), the other fields are its   *)
(* local variables.                                                        *)
(***************************************************************************)
IdleProc ==
  [pc |-> "idle", caller |-> "main", entries |-> <<>>, i |-> 1, files |-> <<>>,
   lastCtrl |-> "", raw |-> <<>>, rawOk |-> TRUE, batch |-> <<>>, j |-> 1,
   highest |-> "", ctrl |-> "", ret |-> "", err |-> "", before |-> NoFile,
   hist |-> <<>>]

MainIdle ==
  /\ cfg = [ediActive |-> FALSE, apiActive |-> FALSE, deleteAfter |-> FALSE]
  /\ inbound = <<>>
  /\ outbound = <<>>
  /\ localFiles = NoLocalFiles
  /\ ckpt = NoFile
  /\ saved = <<>>
  /\ procs = [p \in Cycles |-> IdleProc]

Finished(p) == procs[p].pc \in {"done", "failed"}

\* procs with the fields of run p changed as the record upd says
Step(p, upd) ==
  procs' = [procs EXCEPT ![p] =
              [f \in DOMAIN procs[p] |->
                 IF f \in DOMAIN upd THEN upd[f] ELSE procs[p][f]]]

Goto(p, label) == Step(p, [pc |-> label])

\* main prints the message msg and calls os.Exit(1).
Exit1(p, msg) == Step(p, [pc |-> "failed", err |-> msg])

\* A call of LoadCheckpoint (op "load") or SaveCheckpoint (op "save") that
\* has returned to a caller other than main: its argument, its results, and
\* the checkpoint file at the call and at the return.
Completed(p, op, v, e) ==
  [op |-> op, arg |-> IF op = "save" THEN procs[p].ctrl ELSE "",
   val |-> v, err |-> e, before |-> procs[p].before, after |-> ckpt']

\* LoadCheckpoint or SaveCheckpoint returns the error e: main prints it and
\* exits (main.go:117-120, 169-172), another caller has it.
Raise(p, op, e) ==
  IF procs[p].caller = "main"
  THEN Exit1(p, (IF op = "load" THEN "Failed to load checkpoint: "
                 ELSE "Failed to save checkpoint: ") \o e)
  ELSE Step(p, [pc |-> "ready",
                hist |-> Append(procs[p].hist, Completed(p, op, "", e))])

\* LoadCheckpoint returns (v, nil) or SaveCheckpoint returns nil: main goes
\* on as upd says, another caller has the result.
Return(p, op, v, upd) ==
  IF procs[p].caller = "main" THEN Step(p, upd)
  ELSE Step(p, [pc |-> "ready",
                hist |-> Append(procs[p].hist, Completed(p, op, v, ""))])

\* The call SaveCheckpoint is part of: LoadCheckpoint's creation of the
\* default file (checkpoint.go:21), or a save of its own.
SaveOp(p) == IF procs[p].ret = "default" THEN "load" ELSE "save"

\* A run starts; with overlap = FALSE only when every earlier run has
\* ended (at most one cycle at a time).  The run's before is the checkpoint
\* file as it is then.
Launch(p, overlap) ==
  /\ procs[p].pc = "idle"
  /\ \A q \in Cycles : q < p => procs[q].pc # "idle"
  /\ overlap \/ \A q \in Cycles : q < p => Finished(q)
  /\ Step(p, [pc |-> "start", before |-> ckpt])
  /\ UNCHANGED <<ackVars, cfg, inbound, outbound, localFiles, ckpt, saved>>

\* A main without the check that an integration is active.
LoadConfig_NoGuard(p) ==
  /\ procs[p].pc = "start"
  /\ \/ Exit1(p, "Failed to load config")
     \/ /\ ~cfg.ediActive /\ ~cfg.apiActive
        /\ Goto(p, "done")
     \/ /\ cfg.ediActive
        /\ Goto(p, "fetch")
     \/ /\ ~cfg.ediActive /\ cfg.apiActive
        /\ Goto(p, "loadCheckpoint")
  /\ UNCHANGED <<ackVars, cfg, inbound, outbound, localFiles, ckpt, saved>>

\* main.go:49-59: config.Load, and the check that an integration is active
LoadConfig(p) ==
  /\ procs[p].pc = "start"
  /\ \/ Exit1(p, "Failed to load config")
     \/ /\ ~cfg.ediActive /\ ~cfg.apiActive
        /\ Exit1(p, "No valid API or EDI configuration found")
     \/ /\ cfg.ediActive
        /\ Goto(p, "fetch")
     \/ /\ ~cfg.ediActive /\ cfg.apiActive
        /\ Goto(p, "loadCheckpoint")
  /\ UNCHANGED <<ackVars, cfg, inbound, outbound, localFiles, ckpt, saved>>

\* FetchFilesOverSFTP up to its loop: key, dial, client, ReadDir, the empty
\* listing, MkdirAll.  An error return makes main exit (main.go:73-76).
FetchConnect(p) ==
  /\ procs[p].pc = "fetch"
  /\ \/ Exit1(p, "SFTP download failed")
     \/ /\ Len(inbound) = 0
        /\ Step(p, [pc |-> "upload", files |-> <<>>])
     \/ /\ Len(inbound) > 0
        /\ Step(p, [pc |-> "fetchEntry", entries |-> inbound, i |-> 1,
                    files |-> <<>>])
  /\ UNCHANGED <<ackVars, cfg, inbound, outbound, localFiles, ckpt, saved>>

\* The inbound directory without the entry called name.
Removed(dir, name) == SelectSeq(dir, LAMBDA e : e.name # name)

Listed(dir, name) == \E k \in 1..Len(dir) : dir[k].name = name

\* localFiles with the file called name in state st
Written(files, name, st) == [files EXCEPT ![name] = st]

\* A loop of FetchFilesOverSFTP that removes the remote file before it is
\* copied.
FetchEntry_RemoveFirst(p) ==
  LET me == procs[p] IN
  /\ me.pc = "fetchEntry"
  /\ IF me.i > Len(me.entries)
     THEN /\ Goto(p, "upload")
          /\ UNCHANGED <<inbound, localFiles>>
     ELSE
       LET e == me.entries[me.i]
           removed == IF cfg.deleteAfter THEN Removed(inbound, e.name)
                      ELSE inbound
       IN
       IF e.isDir
       THEN /\ Step(p, [i |-> me.i + 1])
            /\ UNCHANGED <<inbound, localFiles>>
       ELSE
         \/ /\ Exit1(p, "SFTP download failed")
            /\ UNCHANGED <<inbound, localFiles>>
         \/ /\ Listed(inbound, e.name)
            /\ Exit1(p, "SFTP download failed")
            /\ localFiles' = Written(localFiles, e.name, "partial")
            /\ inbound' = removed
         \/ /\ Listed(inbound, e.name)
            /\ Step(p, [i |-> me.i + 1, files |-> Append(me.files, e.name)])
            /\ localFiles' = Written(localFiles, e.name, "complete")
            /\ inbound' = removed
  /\ UNCHANGED <<ackVars, cfg, outbound, ckpt, saved>>

\* One pass of the loop of FetchFilesOverSFTP, and its return after the
\* last entry.
FetchEntry(p) ==
  LET me == procs[p] IN
  /\ me.pc = "fetchEntry"
  /\ IF me.i > Len(me.entries)
     THEN /\ Goto(p, "upload")
          /\ UNCHANGED <<inbound, localFiles>>
     ELSE
       LET e == me.entries[me.i] IN
       IF e.isDir
       THEN /\ Step(p, [i |-> me.i + 1])
            /\ UNCHANGED <<inbound, localFiles>>
       ELSE
         \* client.Open fails
         \/ /\ Exit1(p, "SFTP download failed")
            /\ UNCHANGED <<inbound, localFiles>>
         \* os.Create fails: nothing was written
         \/ /\ Listed(inbound, e.name)
            /\ Exit1(p, "SFTP download failed")
            /\ UNCHANGED <<inbound, localFiles>>
         \* io.Copy fails: the local file is left as far as it got
         \/ /\ Listed(inbound, e.name)
            /\ Exit1(p, "SFTP download failed")
            /\ localFiles' = Written(localFiles, e.name, "partial")
            /\ UNCHANGED inbound
         \* client.Remove fails
         \/ /\ Listed(inbound, e.name)
            /\ cfg.deleteAfter
            /\ Exit1(p, "SFTP download failed")
            /\ localFiles' = Written(localFiles, e.name, "complete")
            /\ UNCHANGED inbound
         \* the file is copied and, if deleteAfter, removed
         \/ /\ Listed(inbound, e.name)
            /\ Step(p, [i |-> me.i + 1, files |-> Append(me.files, e.name)])
            /\ localFiles' = Written(localFiles, e.name, "complete")
            /\ inbound' = IF cfg.deleteAfter THEN Removed(inbound, e.name)
                          ELSE inbound
  /\ UNCHANGED <<ackVars, cfg, outbound, ckpt, saved>>

\* A main that goes on to the order feed when the upload has failed.
Upload_ContinueOnError(p) ==
  /\ procs[p].pc = "upload"
  /\ \/ /\ Goto(p, IF cfg.apiActive THEN "loadCheckpoint" ELSE "failed")
        /\ UNCHANGED outbound
     \/ /\ outbound' = Append(outbound,
                              [name |-> "ConnectivityTest",
                               data |-> ConnectivityTestPayload, by |-> p])
        /\ Goto(p, IF cfg.apiActive THEN "loadCheckpoint" ELSE "done")
  /\ UNCHANGED <<ackVars, cfg, inbound, localFiles, ckpt, saved>>

\* main.go:85-110: the connectivity test file is uploaded
Upload(p) ==
  /\ procs[p].pc = "upload"
  /\ \/ /\ Exit1(p, "ConnectivityTest upload failed")
        /\ UNCHANGED outbound
     \/ /\ outbound' = Append(outbound,
                              [name |-> "ConnectivityTest",
                               data |-> ConnectivityTestPayload, by |-> p])
        /\ Goto(p, IF cfg.apiActive THEN "loadCheckpoint" ELSE "done")
  /\ UNCHANGED <<ackVars, cfg, inbound, localFiles, ckpt, saved>>

\* A LoadCheckpoint that returns "" for a missing file and creates none.
LoadStat_NoCreate(p) ==
  /\ procs[p].pc = "loadCheckpoint"
  /\ UNCHANGED <<ackVars, cfg, inbound, outbound, localFiles, ckpt, saved>>
  /\ \/ Raise(p, "load", "stat")
     \/ /\ ~ckpt.exists
        /\ Return(p, "load", "", [pc |-> "token", lastCtrl |-> ""])
     \/ /\ ckpt.exists
        /\ Goto(p, "loadOpen")

\* LoadCheckpoint, os.Stat (checkpoint.go:17-27): a missing file is created
\* by SaveCheckpoint(dir, "").
LoadStat(p) ==
  /\ procs[p].pc = "loadCheckpoint"
  /\ UNCHANGED <<ackVars, cfg, inbound, outbound, localFiles, ckpt, saved>>
  /\ \/ Raise(p, "load", "stat")
     \/ /\ ~ckpt.exists
        /\ Step(p, [pc |-> "saveCreate", ctrl |-> "", ret |-> "default"])
     \/ /\ ckpt.exists
        /\ Goto(p, "loadOpen")

\* A LoadCheckpoint that takes a file it cannot decode for the empty
\* watermark.
LoadDecode_ErrorAsEmpty(p) ==
  /\ procs[p].pc = "loadOpen"
  /\ UNCHANGED <<ackVars, cfg, inbound, outbound, localFiles, ckpt, saved>>
  /\ \/ Raise(p, "load", "open")
     \/ /\ ckpt.exists
        /\ LET cp == DecodeCheckpoint(ckpt.text) IN
           Return(p, "load", cp.val, [pc |-> "token", lastCtrl |-> cp.val])

\* LoadCheckpoint, os.Open and Decode (checkpoint.go:29-39)
LoadDecode(p) ==
  /\ procs[p].pc = "loadOpen"
  /\ UNCHANGED <<ackVars, cfg, inbound, outbound, localFiles, ckpt, saved>>
  /\ \/ Raise(p, "load", "open")
     \/ /\ ckpt.exists
        /\ LET cp == DecodeCheckpoint(ckpt.text) IN
           IF cp.err # "" THEN Raise(p, "load", cp.err)
           ELSE Return(p, "load", cp.val,
                       [pc |-> "token", lastCtrl |-> cp.val])

\* A SaveCheckpoint that opens the file without truncating it.
SaveCreate_NoTruncate(p) ==
  /\ procs[p].pc = "saveCreate"
  /\ \/ /\ UNCHANGED ckpt
        /\ Raise(p, SaveOp(p), "create")
     \/ /\ ckpt' = IF ckpt.exists THEN ckpt ELSE EmptyFile
        /\ Goto(p, "saveEncode")
  /\ UNCHANGED <<ackVars, cfg, inbound, outbound, localFiles, saved>>

\* SaveCheckpoint, os.Create (checkpoint.go:44-51): the file exists and is
\* empty afterwards.
SaveCreate(p) ==
  /\ procs[p].pc = "saveCreate"
  /\ \/ /\ UNCHANGED ckpt
        /\ Raise(p, SaveOp(p), "create")
     \/ /\ ckpt' = EmptyFile
        /\ Goto(p, "saveEncode")
  /\ UNCHANGED <<ackVars, cfg, inbound, outbound, localFiles, saved>>

\* SaveCheckpoint, Encode (checkpoint.go:53-55), and the return to the
\* caller: LoadCheckpoint returns "" (checkpoint.go:24), main ends
\* (main.go:176).  A write that fails leaves a part of the record.
SaveEncode(p) ==
  LET me == procs[p] IN
  /\ me.pc = "saveEncode"
  /\ \/ /\ \E part \in PartialWrites(EncodeCheckpoint(me.ctrl)) :
             ckpt' = WriteAt0(ckpt, part)
        /\ Raise(p, SaveOp(p), "write")
     \/ /\ ckpt' = WriteAt0(ckpt, EncodeCheckpoint(me.ctrl))
        /\ IF me.ret = "default"
           THEN Return(p, "load", "", [pc |-> "token", lastCtrl |-> ""])
           ELSE Return(p, "save", "", [pc |-> "done"])
  /\ UNCHANGED <<ackVars, cfg, inbound, outbound, localFiles, saved>>

\* main.go:122-127: fetchOAuthToken
FetchToken(p) ==
  /\ procs[p].pc = "token"
  /\ \/ Exit1(p, "Error fetching OAuth2 token")
     \/ Goto(p, "api")
  /\ UNCHANGED <<ackVars, cfg, inbound, outbound, localFiles, ckpt, saved>>

\* main.go:129-134: fetchFromAPI; the body is a batch of purchase orders or
\* text that is no JSON.
FetchFromAPI(p) ==
  /\ procs[p].pc = "api"
  /\ \/ Exit1(p, "Error fetching data from SP-API")
     \/ \E b \in Batches : Step(p, [pc |-> "unmarshal", raw |-> b, rawOk |-> TRUE])
     \/ Step(p, [pc |-> "unmarshal", raw |-> <<>>, rawOk |-> FALSE])
  /\ UNCHANGED <<ackVars, cfg, inbound, outbound, localFiles, ckpt, saved>>

\* A loop that starts with the empty string as highest.
Unmarshal_HighestFromEmpty(p) ==
  LET me == procs[p] IN
  /\ me.pc = "unmarshal"
  /\ IF me.rawOk
     THEN Step(p, [pc |-> "filter", batch |-> me.raw, j |-> 1,
                   highest |-> ""])
     ELSE Exit1(p, "Invalid JSON from SP-API")
  /\ UNCHANGED <<ackVars, cfg, inbound, outbound, localFiles, ckpt, saved>>

\* main.go:136-150: json.Unmarshal, highest := lastCtrl
Unmarshal(p) ==
  LET me == procs[p] IN
  /\ me.pc = "unmarshal"
  /\ IF me.rawOk
     THEN Step(p, [pc |-> "filter", batch |-> me.raw, j |-> 1,
                   highest |-> me.lastCtrl])
     ELSE Exit1(p, "Invalid JSON from SP-API")
  /\ UNCHANGED <<ackVars, cfg, inbound, outbound, localFiles, ckpt, saved>>

\* An order is new when its number is not below the watermark.
IsNew_NotBelow(po, lastCtrl) == ~StrLess(po, lastCtrl)

\* An order is new by the value of its number: the shorter number, or of
\* two of the same length the one that orders first, is the smaller.
IsNew_ByValue(po, lastCtrl) ==
  \/ Len(po) > Len(lastCtrl)
  \/ Len(po) = Len(lastCtrl) /\ StrLess(lastCtrl, po)

\* main.go:152: the orders that are not skipped
IsNew(po, lastCtrl) == ~StrLeq(po, lastCtrl)

\* The lower of the two numbers is kept.
Higher_Lower(highest, po) == IF StrLess(po, highest) THEN po ELSE highest

\* The number of the order just saved is kept.
Higher_LastSaved(highest, po) == po

\* main.go:162-164: highest after the order po was saved
Higher(highest, po) == IF StrLess(highest, po) THEN po ELSE highest

\* A loop that writes no order file for an identifier of which an order
\* file exists.
Filter_SkipExisting(p) ==
  LET me == procs[p] IN
  /\ me.pc = "filter"
  /\ IF me.j > Len(me.batch)
     THEN /\ IF me.highest # me.lastCtrl
             THEN Step(p, [pc |-> "saveCreate", ctrl |-> me.highest,
                           ret |-> "main"])
             ELSE Goto(p, "done")
          /\ UNCHANGED saved
     ELSE
       LET po == me.batch[me.j] IN
       IF ~IsNew(po, me.lastCtrl) \/ \E k \in 1..Len(saved) : saved[k].po = po
       THEN /\ Step(p, [j |-> me.j + 1])
            /\ UNCHANGED saved
       ELSE
         \/ /\ Exit1(p, "Failed to write order file")
            /\ UNCHANGED saved
         \/ /\ saved' = Append(saved, [po |-> po, by |-> p])
            /\ Step(p, [j |-> me.j + 1, highest |-> Higher(me.highest, po)])
  /\ UNCHANGED <<ackVars, cfg, inbound, outbound, localFiles, ckpt>>

\* A loop that writes the watermark with every order file.
Filter_CheckpointPerOrder(p) ==
  LET me == procs[p] IN
  /\ me.pc = "filter"
  /\ IF me.j > Len(me.batch)
     THEN /\ IF me.highest # me.lastCtrl
             THEN Step(p, [pc |-> "saveCreate", ctrl |-> me.highest,
                           ret |-> "main"])
             ELSE Goto(p, "done")
          /\ UNCHANGED <<saved, ckpt>>
     ELSE
       LET po == me.batch[me.j] IN
       IF ~IsNew(po, me.lastCtrl)
       THEN /\ Step(p, [j |-> me.j + 1])
            /\ UNCHANGED <<saved, ckpt>>
       ELSE
         \/ /\ Exit1(p, "Failed to write order file")
            /\ UNCHANGED <<saved, ckpt>>
         \/ /\ saved' = Append(saved, [po |-> po, by |-> p])
            /\ ckpt' = JsonFile(Higher(me.highest, po))
            /\ Step(p, [j |-> me.j + 1, highest |-> Higher(me.highest, po)])
  /\ UNCHANGED <<ackVars, cfg, inbound, outbound, localFiles>>

\* A loop that is followed by a save of highest whether or not it differs
\* from lastCtrl.
Filter_AlwaysSave(p) ==
  LET me == procs[p] IN
  /\ me.pc = "filter"
  /\ IF me.j > Len(me.batch)
     THEN /\ Step(p, [pc |-> "saveCreate", ctrl |-> me.highest,
                      ret |-> "main"])
          /\ UNCHANGED saved
     ELSE
       LET po == me.batch[me.j] IN
       IF ~IsNew(po, me.lastCtrl)
       THEN /\ Step(p, [j |-> me.j + 1])
            /\ UNCHANGED saved
       ELSE
         \/ /\ Exit1(p, "Failed to write order file")
            /\ UNCHANGED saved
         \/ /\ saved' = Append(saved, [po |-> po, by |-> p])
            /\ Step(p, [j |-> me.j + 1, highest |-> Higher(me.highest, po)])
  /\ UNCHANGED <<ackVars, cfg, inbound, outbound, localFiles, ckpt>>

\* main.go:151-165: one pass of the loop over the purchase orders, and the
\* test after the loop (main.go:168).
Filter(p) ==
  LET me == procs[p] IN
  /\ me.pc = "filter"
  /\ IF me.j > Len(me.batch)
     THEN /\ IF me.highest # me.lastCtrl
             THEN Step(p, [pc |-> "saveCreate", ctrl |-> me.highest,
                           ret |-> "main"])
             ELSE Goto(p, "done")
          /\ UNCHANGED saved
     ELSE
       LET po == me.batch[me.j] IN
       IF ~IsNew(po, me.lastCtrl)
       THEN /\ Step(p, [j |-> me.j + 1])
            /\ UNCHANGED saved
       ELSE
         \* os.WriteFile fails
         \/ /\ Exit1(p, "Failed to write order file")
            /\ UNCHANGED saved
         \/ /\ saved' = Append(saved, [po |-> po, by |-> p])
            /\ Step(p, [j |-> me.j + 1, highest |-> Higher(me.highest, po)])
  /\ UNCHANGED <<ackVars, cfg, inbound, outbound, localFiles, ckpt>>

\* The states a cycle may start in.  Without the inbound integration the
\* inbound directory plays no part, without the order feed the checkpoint
\* file plays none.
MainInit ==
  /\ cfg \in Configs
  /\ inbound \in (IF cfg.ediActive THEN Listings ELSE {<<>>})
  /\ outbound = <<>>
  /\ localFiles = NoLocalFiles
  /\ ckpt \in (IF cfg.apiActive
               THEN {NoFile, CorruptFile, GarbageFile}
                      \cup {JsonFile(v) : v \in PoNumbers}
               ELSE {NoFile})
  /\ saved = <<>>
  /\ procs = [p \in Cycles |-> IdleProc]

Init ==
  /\ MainInit
  /\ doc = GoodDoc
  /\ senderID = "1691449"
  /\ clock = 1
  /\ calls = <<>>

\* Cycles that do not overlap: at most one run of main at a time.
Next ==
  \E p \in Cycles :
    \/ Launch(p, FALSE)
    \/ LoadConfig(p)
    \/ FetchConnect(p)
    \/ FetchEntry(p)
    \/ Upload(p)
    \/ LoadStat(p)
    \/ LoadDecode(p)
    \/ SaveCreate(p)
    \/ SaveEncode(p)
    \/ FetchToken(p)
    \/ FetchFromAPI(p)
    \/ Unmarshal(p)
    \/ Filter(p)

Spec == Init /\ [][Next]_vars

(***************************************************************************)
(* Runs that go on: main is a sequential program in which every call       *)
(* returns, so a run that can take a step takes one.                       *)
(***************************************************************************)
\* The starting states: of the checkpoint files the missing one and one
\* that holds a watermark, of the listings those of at most one entry.
LiveInit ==
  /\ Init
  /\ ckpt \in {NoFile, JsonFile("10")}
  /\ Len(inbound) <= 1

SpecLive == LiveInit /\ [][Next]_vars /\ WF_vars(Next)

(***************************************************************************)
(* Cycles that overlap: runs of main with the order feed alone, started    *)
(* while earlier runs are still going, their steps interleaved.            *)
(***************************************************************************)
OverlapInit ==
  /\ cfg = [ediActive |-> FALSE, apiActive |-> TRUE, deleteAfter |-> FALSE]
  /\ inbound = <<>>
  /\ outbound = <<>>
  /\ localFiles = NoLocalFiles
  /\ ckpt \in {NoFile, JsonFile("")}
  /\ saved = <<>>
  /\ procs = [p \in Cycles |-> IdleProc]
  /\ doc = GoodDoc
  /\ senderID = "1691449"
  /\ clock = 1
  /\ calls = <<>>

OverlapNext ==
  \E p \in Cycles :
    \/ Launch(p, TRUE)
    \/ LoadConfig(p)
    \/ LoadStat(p)
    \/ LoadDecode(p)
    \/ SaveCreate(p)
    \/ SaveEncode(p)
    \/ FetchToken(p)
    \/ FetchFromAPI(p)
    \/ Unmarshal(p)
    \/ Filter(p)

SpecOverlap == OverlapInit /\ [][OverlapNext]_vars

(***************************************************************************)
(* Runs of the order feed that the environment may kill.  A kill ends the  *)
(* run at the statement it is at, with the files as they are then; the     *)
(* next cycle starts afterwards.                                           *)
(***************************************************************************)
\* Run p is killed (main.go:114-174, at any statement).
Kill(p) ==
  /\ procs[p].pc \notin {"idle", "done", "failed"}
  /\ Exit1(p, "killed at " \o procs[p].pc)
  /\ UNCHANGED <<ackVars, cfg, inbound, outbound, localFiles, ckpt, saved>>

KillInit ==
  /\ cfg = [ediActive |-> FALSE, apiActive |-> TRUE, deleteAfter |-> FALSE]
  /\ inbound = <<>>
  /\ outbound = <<>>
  /\ localFiles = NoLocalFiles
  /\ ckpt \in {NoFile, CorruptFile} \cup {JsonFile(v) : v \in PoNumbers}
  /\ saved = <<>>
  /\ procs = [p \in Cycles |-> IdleProc]
  /\ doc = GoodDoc
  /\ senderID = "1691449"
  /\ clock = 1
  /\ calls = <<>>

KillNext ==
  \E p \in Cycles :
    \/ Launch(p, FALSE)
    \/ LoadConfig(p)
    \/ LoadStat(p)
    \/ LoadDecode(p)
    \/ SaveCreate(p)
    \/ SaveEncode(p)
    \/ FetchToken(p)
    \/ FetchFromAPI(p)
    \/ Unmarshal(p)
    \/ Filter(p)
    \/ Kill(p)

SpecKill == KillInit /\ [][KillNext]_vars

(***************************************************************************)
(* Config (pkg/config/config.go).  In the specification of this section    *)
(* cfg is the whole Config struct, a record of records with the fields of  *)
(* config.go:49-82, and calls is the list of the calls of ApplyDefaults    *)
(* and OverrideConfig made on it.  A pointer of ConfigOverride is the      *)
(* empty sequence (nil) or the sequence of the one value it points to.     *)
(***************************************************************************)
Nil == <<>>

Ptr(v) == <<v>>

\* A Config whose six fields with a default are as d says and whose other
\* fields are empty (rest = "", the zero value) or set.
Config(d, rest) ==
  [Version |-> rest,
   API |-> [Active |-> rest # "",
            Auth |-> [ClientID |-> rest, ClientSecret |-> rest,
                      ApplicationID |-> rest, RefreshToken |-> rest],
            BaseURL |-> d[1], TokenURL |-> d[2], EndpointURL |-> d[3]],
   EDI |-> [Active |-> rest # "", Host |-> rest,
            Port |-> IF rest = "" THEN 0 ELSE 22,
            DownloadUsername |-> rest, UploadUsername |-> rest,
            PrivateKeyPath |-> rest, InboundDir |-> rest,
            OutboundDir |-> rest, SenderID |-> rest],
   Storage |-> [OutputFormat |-> d[4], SavePath |-> d[5], FileName |-> d[6]]]

\* The Configs the calls start from: Config{}, and those with the other
\* fields set.
StartConfigs ==
  {Config([k \in 1..6 |-> ""], "")}
    \cup {Config(d, "set") : d \in [1..6 -> {"", "set"}]}

\* An ApplyDefaults that has no default for the file name.
ApplyDefaults_NoFileName(c) ==
  [c EXCEPT
     !.API.BaseURL = IF @ = "" THEN "https://sellingpartnerapi-na.amazon.com"
                     ELSE @,
     !.API.TokenURL = IF @ = "" THEN "https://api.amazon.com/auth/o2/token"
                      ELSE @,
     !.API.EndpointURL = IF @ = "" THEN "/vendor/orders/v1/purchaseOrders"
                         ELSE @,
     !.Storage.OutputFormat = IF @ = "" THEN "json" ELSE @,
     !.Storage.SavePath = IF @ = "" THEN "output/" ELSE @]

\* Config.ApplyDefaults (config.go:122-141)
ApplyDefaults(c) ==
  [c EXCEPT
     !.API.BaseURL = IF @ = "" THEN "https://sellingpartnerapi-na.amazon.com"
                     ELSE @,
     !.API.TokenURL = IF @ = "" THEN "https://api.amazon.com/auth/o2/token"
                      ELSE @,
     !.API.EndpointURL = IF @ = "" THEN "/vendor/orders/v1/purchaseOrders"
                         ELSE @,
     !.Storage.OutputFormat = IF @ = "" THEN "json" ELSE @,
     !.Storage.SavePath = IF @ = "" THEN "output/" ELSE @,
     !.Storage.FileName = IF @ = "" THEN "data_dump" ELSE @]

\* The pointers of a section: all nil, or one of them set.
OneOf(names, values) ==
  {[n \in names |-> Nil]}
    \cup {[n \in names |-> IF n = m THEN Ptr(v) ELSE Nil] :
            m \in names, v \in values}

AuthOverrides ==
  OneOf({"ClientID", "ClientSecret", "ApplicationID", "RefreshToken"},
        {"new"})

ApiOverrides ==
  {[Auth |-> a, BaseURL |-> r.BaseURL, TokenURL |-> r.TokenURL,
    EndpointURL |-> r.EndpointURL] :
     a \in {Nil} \cup {Ptr(x) : x \in AuthOverrides},
     r \in OneOf({"BaseURL", "TokenURL", "EndpointURL"}, {"new", ""})}

EdiOverrides ==
  OneOf({"Host", "DownloadUsername", "UploadUsername", "PrivateKeyPath",
         "InboundDir", "OutboundDir", "SenderID"}, {"new"})

StorageOverrides ==
  OneOf({"OutputFormat", "SavePath", "FileName"}, {"new", ""})

\* The number of pointers to a value in the section sec (nil or a pointer
\* to a record of pointers), the Auth pointer apart.
Set(sec) ==
  IF sec = Nil THEN 0
  ELSE Cardinality({n \in DOMAIN sec[1] \ {"Auth"} : sec[1][n] # Nil})

\* The overrides are at most of MaxOverridden fields.
MaxOverridden == 2

\* The values of ConfigOverride the calls are made with: every section is
\* nil or given, in a section at most one pointer is set (in the EDI
\* section one and the port), and at most MaxOverridden in all.
Overrides ==
  {o \in {[Version |-> v, API |-> a, EDI |-> e, Storage |-> st] :
            v \in {Nil, Ptr("v2")},
            a \in {Nil} \cup {Ptr(x) : x \in ApiOverrides},
            e \in {Nil} \cup {Ptr([Port |-> pt] @@ x) :
                                x \in EdiOverrides, pt \in {Nil, Ptr(2222)}},
            st \in {Nil} \cup {Ptr(x) : x \in StorageOverrides}} :
     Len(o.Version) + Set(o.API) + Set(o.EDI) + Set(o.Storage)
       + (IF o.API = Nil THEN 0 ELSE Set(o.API[1].Auth)) <= MaxOverridden}

\* The value a pointer gives a field: what it points to, or for nil the
\* field's own value.
Over(ptr, old) == IF ptr # Nil THEN ptr[1] ELSE old

\* An OverrideConfig that takes the fields of a section that is given but
\* does not look at the Auth pointer.
OverrideConfig_AuthIgnored(c, o) ==
  LET api == IF o.API # Nil THEN o.API[1] ELSE [x \in {} |-> Nil]
      edi == IF o.EDI # Nil THEN o.EDI[1] ELSE [x \in {} |-> Nil]
      sto == IF o.Storage # Nil THEN o.Storage[1] ELSE [x \in {} |-> Nil]
      P(sec, name) == IF name \in DOMAIN sec THEN sec[name] ELSE Nil
  IN [Version |-> Over(o.Version, c.Version),
      API |-> [c.API EXCEPT
                 !.BaseURL = Over(P(api, "BaseURL"), @),
                 !.TokenURL = Over(P(api, "TokenURL"), @),
                 !.EndpointURL = Over(P(api, "EndpointURL"), @)],
      EDI |-> [c.EDI EXCEPT
                 !.Host = Over(P(edi, "Host"), @),
                 !.Port = Over(P(edi, "Port"), @),
                 !.DownloadUsername = Over(P(edi, "DownloadUsername"), @),
                 !.UploadUsername = Over(P(edi, "UploadUsername"), @),
                 !.PrivateKeyPath = Over(P(edi, "PrivateKeyPath"), @),
                 !.InboundDir = Over(P(edi, "InboundDir"), @),
                 !.OutboundDir = Over(P(edi, "OutboundDir"), @),
                 !.SenderID = Over(P(edi, "SenderID"), @)],
      Storage |-> [c.Storage EXCEPT
                     !.OutputFormat = Over(P(sto, "OutputFormat"), @),
                     !.SavePath = Over(P(sto, "SavePath"), @),
                     !.FileName = Over(P(sto, "FileName"), @)]]

\* Config.OverrideConfig (config.go:180-246): a field is assigned when its
\* pointer and the pointers of the sections around it are not nil.
OverrideConfig(c, o) ==
  LET api == IF o.API # Nil THEN o.API[1] ELSE [x \in {} |-> Nil]
      auth == IF o.API # Nil /\ o.API[1].Auth # Nil THEN o.API[1].Auth[1]
              ELSE [x \in {} |-> Nil]
      edi == IF o.EDI # Nil THEN o.EDI[1] ELSE [x \in {} |-> Nil]
      sto == IF o.Storage # Nil THEN o.Storage[1] ELSE [x \in {} |-> Nil]
      P(sec, name) == IF name \in DOMAIN sec THEN sec[name] ELSE Nil
  IN [Version |-> Over(o.Version, c.Version),
      API |-> [c.API EXCEPT
                 !.Auth.ClientID = Over(P(auth, "ClientID"), @),
                 !.Auth.ClientSecret = Over(P(auth, "ClientSecret"), @),
                 !.Auth.ApplicationID = Over(P(auth, "ApplicationID"), @),
                 !.Auth.RefreshToken = Over(P(auth, "RefreshToken"), @),
                 !.BaseURL = Over(P(api, "BaseURL"), @),
                 !.TokenURL = Over(P(api, "TokenURL"), @),
                 !.EndpointURL = Over(P(api, "EndpointURL"), @)],
      EDI |-> [c.EDI EXCEPT
                 !.Host = Over(P(edi, "Host"), @),
                 !.Port = Over(P(edi, "Port"), @),
                 !.DownloadUsername = Over(P(edi, "DownloadUsername"), @),
                 !.UploadUsername = Over(P(edi, "UploadUsername"), @),
                 !.PrivateKeyPath = Over(P(edi, "PrivateKeyPath"), @),
                 !.InboundDir = Over(P(edi, "InboundDir"), @),
                 !.OutboundDir = Over(P(edi, "OutboundDir"), @),
                 !.SenderID = Over(P(edi, "SenderID"), @)],
      Storage |-> [c.Storage EXCEPT
                     !.OutputFormat = Over(P(sto, "OutputFormat"), @),
                     !.SavePath = Over(P(sto, "SavePath"), @),
                     !.FileName = Over(P(sto, "FileName"), @)]]

\* The calls made on one Config are at most MaxConfigCalls.
MaxConfigCalls == 2

\* cfg.ApplyDefaults()
CallApplyDefaults ==
  /\ Len(calls) < MaxConfigCalls
  /\ cfg' = ApplyDefaults(cfg)
  /\ calls' = Append(calls, [op |-> "ApplyDefaults", o |-> Nil,
                             before |-> cfg, after |-> cfg'])
  /\ UNCHANGED <<doc, senderID, clock, inbound, outbound, localFiles, ckpt,
                 saved, procs>>

\* cfg.OverrideConfig(o), once for a Config
CallOverrideConfig ==
  /\ Len(calls) < MaxConfigCalls
  /\ \A k \in 1..Len(calls) : calls[k].op # "OverrideConfig"
  /\ \E o \in Overrides :
       /\ cfg' = OverrideConfig(cfg, o)
       /\ calls' = Append(calls, [op |-> "OverrideConfig", o |-> Ptr(o),
                                  before |-> cfg, after |-> cfg'])
  /\ UNCHANGED <<doc, senderID, clock, inbound, outbound, localFiles, ckpt,
                 saved, procs>>

ConfigInit ==
  /\ cfg \in StartConfigs
  /\ calls = <<>>
  /\ doc = GoodDoc
  /\ senderID = "1691449"
  /\ clock = 1
  /\ inbound = <<>>
  /\ outbound = <<>>
  /\ localFiles = NoLocalFiles
  /\ ckpt = NoFile
  /\ saved = <<>>
  /\ procs = [p \in Cycles |-> IdleProc]

ConfigNext == CallApplyDefaults \/ CallOverrideConfig

SpecConfig == ConfigInit /\ [][ConfigNext]_vars

(***************************************************************************)
(* The checkpoint on its own: a caller that saves and loads, one call      *)
(* after the other, values of its choosing.                                *)
(***************************************************************************)
\* The most calls the caller makes.
MaxCalls == 3

\* The values it saves: the empty one, a plain one, one with a quote, an
\* HTML character, a backslash and a line feed, and one with the byte 0xFF.
TestValues ==
  {"", "9", "A" \o Quote \o "<" \o Backslash \o NL, BadByte \o "1"}

\* The errors of the file system, as opposed to those of the decoder.
IOErrors == {"stat", "open", "create", "write"}

CallSave(p) ==
  /\ procs[p].pc = "ready"
  /\ Len(procs[p].hist) < MaxCalls
  /\ \E v \in TestValues :
       Step(p, [pc |-> "saveCreate", ctrl |-> v, ret |-> "test",
                before |-> ckpt])
  /\ UNCHANGED <<ackVars, cfg, inbound, outbound, localFiles, ckpt, saved>>

CallLoad(p) ==
  /\ procs[p].pc = "ready"
  /\ Len(procs[p].hist) < MaxCalls
  /\ Step(p, [pc |-> "loadCheckpoint", before |-> ckpt])
  /\ UNCHANGED <<ackVars, cfg, inbound, outbound, localFiles, ckpt, saved>>

CkptInit ==
  /\ cfg = [ediActive |-> FALSE, apiActive |-> TRUE, deleteAfter |-> FALSE]
  /\ inbound = <<>>
  /\ outbound = <<>>
  /\ localFiles = NoLocalFiles
  /\ ckpt \in {NoFile, CorruptFile} \cup {JsonFile(v) : v \in TestValues}
  /\ saved = <<>>
  /\ procs = [p \in Cycles |->
               IF p = 1
               THEN [IdleProc EXCEPT !.pc = "ready", !.caller = "test"]
               ELSE IdleProc]
  /\ doc = GoodDoc
  /\ senderID = "1691449"
  /\ clock = 1
  /\ calls = <<>>

CkptNext ==
  \E p \in Cycles :
    \/ CallSave(p)
    \/ CallLoad(p)
    \/ LoadStat(p)
    \/ LoadDecode(p)
    \/ SaveCreate(p)
    \/ SaveEncode(p)

SpecCkpt == CkptInit /\ [][CkptNext]_vars

(***************************************************************************)
(* The acknowledgment codec on its own: Generate997 applied to a document, *)
(* then once more to the same document or to its twin, while the clock     *)
(* runs.                                                                   *)
(***************************************************************************)
\* One call of Generate997: what it was given, what the clock showed and
\* what it returned.
Call(d, sender, c) ==
  [doc |-> d, senderID |-> sender, clock |-> c,
   res |-> Generate997(Render(d), sender, Clocks[c])]

AckInit ==
  /\ doc \in Docs
  /\ senderID \in SenderIDs
  /\ clock = 1
  /\ calls = <<>>
  /\ MainIdle

Tick ==
  /\ clock < Len(Clocks)
  /\ clock' = clock + 1
  /\ UNCHANGED <<doc, senderID, calls, mainVars>>

Generate ==
  /\ calls = <<>>
  /\ calls' = <<Call(doc, senderID, clock)>>
  /\ UNCHANGED <<doc, senderID, clock, mainVars>>

Regenerate ==
  /\ Len(calls) = 1
  /\ \E d \in {doc, Twin(doc)} :
       calls' = Append(calls, Call(d, senderID, clock))
  /\ UNCHANGED <<doc, senderID, clock, mainVars>>

AckNext == Tick \/ Generate \/ Regenerate

SpecAck == AckInit /\ [][AckNext]_vars

(***************************************************************************)
(* Reading an acknowledgment back: its rendered lines and their fields.    *)
(***************************************************************************)
\* strings.Split(s, c) for a one-character separator c.
RECURSIVE PiecesFrom(_, _, _)
PiecesFrom(s, at, i) ==
  IF at = {} THEN <<SubSeq(s, i, Len(s))>>
  ELSE LET j == SetMin(at)
       IN <<SubSeq(s, i, j - 1)>> \o PiecesFrom(s, at \ {j}, j + 1)

SplitOn(s, c) == PiecesFrom(s, {j \in 1..Len(s) : Ch(s, j) = c}, 1)

EndsWith(s, c) == Len(s) > 0 /\ Ch(s, Len(s)) = c

StartsWith(s, prefix) ==
  Len(prefix) <= Len(s) /\ SubSeq(s, 1, Len(prefix)) = prefix

Contains(s, c) == \E j \in 1..Len(s) : Ch(s, j) = c

\* The fields of a rendered line, its segment terminator left out.
Fields(line) ==
  SplitOn(IF EndsWith(line, "~") THEN SubSeq(line, 1, Len(line) - 1) ELSE line,
          "*")

\* The rendered lines of an acknowledgment, each as its fields.
AckLines(text) ==
  LET lines == SplitOn(text, NL) IN [k \in 1..Len(lines) |-> Fields(lines[k])]

\* The values that field number pos takes on the lines of segment tag.
Echo(ack, tag, pos) ==
  {ack[k][pos] : k \in {n \in 1..Len(ack) : ack[n][1] = tag /\ Len(ack[n]) >= pos}}

\* How often a segment of tag occurs among the lines.
Count(ack, tag) == Cardinality({k \in 1..Len(ack) : ack[k][1] = tag})

\* The calls made so far that returned an acknowledgment / were given a
\* well-formed document.
Built == {i \in 1..Len(calls) : calls[i].res.err = ""}

OnWellFormed == {i \in 1..Len(calls) : WellFormed(calls[i].doc)}

(***************************************************************************)
(* C1  As claimed: when a run of main with the inbound integration active  *)
(* has ended with success, then for every document it retrieved from the   *)
(* inbound directory whose envelope extraction succeeds it has pushed      *)
(* exactly one file to the outbound directory that holds the 997 built     *)
(* from that document and whose name is derived from (contains the base    *)
(* name of) the document's name, and these files were pushed in the order  *)
(* in which the documents were listed.                                     *)
(***************************************************************************)
HasSubstring(s, sub) ==
  \E k \in 1..(Len(s) - Len(sub) + 1) : SubSeq(s, k, k + Len(sub) - 1) = sub

BaseName(name) == SplitOn(name, ".")[1]

\* The acknowledgment of the document of entry e, if its extraction succeeds.
AckOf(e) ==
  {r \in {Generate997(Render(e.doc), senderID, Clocks[c]) : c \in 1..Len(Clocks)} :
     r.err = ""}

\* The positions in outbound of the acknowledgments run p pushed for entry e.
Pushed(p, e) ==
  {k \in 1..Len(outbound) :
     /\ outbound[k].by = p
     /\ HasSubstring(outbound[k].name, BaseName(e.name))
     /\ \E r \in AckOf(e) : outbound[k].data = r.text}

\* The entries of its listing that run p retrieved and can acknowledge.
Acknowledgeable(p) ==
  {i \in 1..Len(procs[p].entries) :
     /\ \E k \in 1..Len(procs[p].files) : procs[p].files[k] = procs[p].entries[i].name
     /\ AckOf(procs[p].entries[i]) # {}}

C1_AckPushedPerDocument ==
  \A p \in Cycles :
    procs[p].pc = "done" /\ cfg.ediActive =>
      /\ \A i \in Acknowledgeable(p) :
           Cardinality(Pushed(p, procs[p].entries[i])) = 1
      /\ \A i, j \in Acknowledgeable(p) :
           i < j => \A a \in Pushed(p, procs[p].entries[i]),
                       b \in Pushed(p, procs[p].entries[j]) : a < b

(***************************************************************************)
(* C2  For every well-formed inbound document the acknowledgment carries   *)
(* the inbound ISA control number in its ISA header and its IEA trailer,   *)
(* the inbound GS control number in its GS header and its AK1 segment, and *)
(* the inbound ST control number in its ST*997 header and its SE trailer,  *)
(* each copied verbatim; ISA/GS control 900000014 and ST control 0001 give *)
(* the lines IEA*1*900000014~, ST*997*0001~ and AK1*PO*900000014~.         *)
(***************************************************************************)
C2_ControlNumbersEchoed ==
  \A i \in OnWellFormed :
    LET d   == calls[i].doc
        ack == AckLines(calls[i].res.text)
        raw == SplitOn(calls[i].res.text, NL)
    IN /\ calls[i].res.err = ""
       /\ Echo(ack, "ISA", 14) = {d.isaCtrl}
       /\ Echo(ack, "IEA", 3) = {d.isaCtrl}
       /\ Echo(ack, "GS", 7) = {d.gsCtrl}
       /\ Echo(ack, "AK1", 3) = {d.gsCtrl}
       /\ Echo(ack, "AK1", 2) = {"PO"}
       /\ Echo(ack, "ST", 3) = {d.stCtrl}
       /\ Echo(ack, "ST", 2) = {"997"}
       /\ Echo(ack, "SE", 3) = {d.stCtrl}
       /\ (d.isaCtrl = "900000014" /\ d.gsCtrl = "900000014" /\ d.stCtrl = "0001"
             => {"IEA*1*900000014~", "ST*997*0001~", "AK1*PO*900000014~"}
                  \subseteq {raw[k] : k \in 1..Len(raw)})

C2_Witness ==
  /\ calls # <<>>
  /\ WellFormed(calls[1].doc)
  /\ calls[1].doc.isaCtrl = "900000014"
  /\ calls[1].doc.gsCtrl = "900000014"
  /\ calls[1].doc.stCtrl = "0001"
  /\ calls[1].res.text # ""

(***************************************************************************)
(* C3  As claimed: for every well-formed inbound document, also one whose  *)
(* ISA and GS control numbers differ, the control number of the GE trailer *)
(* equals the inbound ISA (interchange) control number.                    *)
(***************************************************************************)
C3_GeEchoesInterchange ==
  \A i \in OnWellFormed :
    Echo(AckLines(calls[i].res.text), "GE", 3) = {calls[i].doc.isaCtrl}

(***************************************************************************)
(* C3  As amended: for every well-formed inbound document the control      *)
(* number of the GE trailer equals the inbound GS (group) control number;  *)
(* it equals the inbound ISA control number exactly when the two inbound   *)
(* numbers are equal.                                                      *)
(***************************************************************************)
C3_GeEchoesGroup ==
  \A i \in OnWellFormed :
    LET d  == calls[i].doc
        ge == Echo(AckLines(calls[i].res.text), "GE", 3)
    IN /\ ge = {d.gsCtrl}
       /\ (ge = {d.isaCtrl}) <=> (d.gsCtrl = d.isaCtrl)

C3_Witness ==
  /\ calls # <<>>
  /\ WellFormed(calls[1].doc)
  /\ calls[1].doc.isaCtrl # calls[1].doc.gsCtrl
  /\ calls[1].res.text # ""

(***************************************************************************)
(* C4  The trailers of an acknowledgment close the envelopes innermost     *)
(* first: its last three lines are SE, GE, IEA in this order, each once,   *)
(* and each echoes the control number of its own level: SE the inbound     *)
(* transaction-set, GE the inbound group, IEA the inbound interchange      *)
(* control number.                                                         *)
(***************************************************************************)
C4_TrailersCloseInOrder ==
  \A i \in OnWellFormed :
    LET d   == calls[i].doc
        ack == AckLines(calls[i].res.text)
        n   == Len(ack)
    IN /\ n >= 3
       /\ ack[n - 2][1] = "SE" /\ ack[n - 1][1] = "GE" /\ ack[n][1] = "IEA"
       /\ Count(ack, "SE") = 1 /\ Count(ack, "GE") = 1 /\ Count(ack, "IEA") = 1
       /\ ack[n - 2][3] = d.stCtrl
       /\ ack[n - 1][3] = d.gsCtrl
       /\ ack[n][3] = d.isaCtrl

C4_Witness ==
  /\ calls # <<>>
  /\ WellFormed(calls[1].doc)
  /\ calls[1].doc.isaCtrl = "900000021"
  /\ calls[1].doc.gsCtrl = "77"
  /\ calls[1].doc.stCtrl = "0002"
  /\ calls[1].res.text # ""

(***************************************************************************)
(* The segments of an acknowledgment: the pieces its text falls into at    *)
(* the segment terminator '~', the line feed that follows a terminator     *)
(* left out.  The piece after the last terminator is the last element.     *)
(***************************************************************************)
AckSegments(text) ==
  LET pieces == SplitOn(text, "~")
  IN [k \in 1..Len(pieces) |->
        IF StartsWith(pieces[k], NL)
        THEN SubSeq(pieces[k], 2, Len(pieces[k]))
        ELSE pieces[k]]

SegmentTags == <<"ISA", "GS", "ST", "AK1", "AK9", "SE", "GE", "IEA">>

\* The text is n terminated segments and nothing more, none of them blank,
\* their tags being the first n of tags in order.
IsSegmentList(text, n, tags) ==
  LET segs == AckSegments(text)
  IN /\ Len(segs) = n + 1
     /\ segs[n + 1] = ""
     /\ \A k \in 1..n :
          /\ segs[k] # ""
          /\ ~Contains(segs[k], NL)
          /\ k <= Len(tags) => SplitOn(segs[k], "*")[1] = tags[k]

(***************************************************************************)
(* C5  As claimed: every acknowledgment Generate997 produces is composed   *)
(* of exactly 9 segments, in the fixed order ISA, GS, ST, AK1, AK9, SE,    *)
(* GE, IEA, each ending with the terminator '~', with no duplicated        *)
(* trailing terminator and no blank segment.                               *)
(***************************************************************************)
C5_NineSegments ==
  \A i \in Built : IsSegmentList(calls[i].res.text, 9, SegmentTags)

(***************************************************************************)
(* C5  As amended: every acknowledgment Generate997 produces for a         *)
(* senderID that holds no '~' and no line feed is composed of exactly 8    *)
(* segments, ISA, GS, ST, AK1, AK9, SE, GE, IEA in this order, each ending *)
(* with the terminator '~', with no duplicated trailing terminator and no  *)
(* blank segment.                                                          *)
(***************************************************************************)
C5_EightSegments ==
  \A i \in Built :
    ~Contains(calls[i].senderID, "~") /\ ~Contains(calls[i].senderID, NL)
      => /\ IsSegmentList(calls[i].res.text, 8, SegmentTags)
         /\ Len(SegmentTags) = 8

C5_Witness ==
  /\ calls # <<>>
  /\ calls[1].res.err = ""
  /\ calls[1].senderID = "1691449"
  /\ Len(AckSegments(calls[1].res.text)) = 9

(***************************************************************************)
(* C6  As claimed: in the ISA header of the acknowledgment the configured  *)
(* senderId stands in the interchange sender position (the first           *)
(* ZZ-qualified identifier) and AMAZON in the interchange receiver         *)
(* position (the second ZZ-qualified identifier).                          *)
(***************************************************************************)
C6_IsaSenderIsSenderId ==
  \A i \in Built :
    LET ack == AckLines(calls[i].res.text)
    IN /\ Echo(ack, "ISA", 6) = {"ZZ"}
       /\ Echo(ack, "ISA", 7) = {calls[i].senderID}
       /\ Echo(ack, "ISA", 8) = {"ZZ"}
       /\ Echo(ack, "ISA", 9) = {"AMAZON         "}

(***************************************************************************)
(* C7  As claimed: the GS header of the acknowledgment has the configured  *)
(* senderId in its sender field and the sender ID of the inbound GS header *)
(* in its receiver field, and echoes the inbound GS date, time and control *)
(* number unchanged.  (The inbound GS sender of every document here is     *)
(* AMAZON.)                                                                *)
(***************************************************************************)
C7_GsRolesReversed ==
  \A i \in OnWellFormed :
    LET d   == calls[i].doc
        ack == AckLines(calls[i].res.text)
    IN /\ Echo(ack, "GS", 3) = {calls[i].senderID}
       /\ Echo(ack, "GS", 4) = {"AMAZON"}
       /\ Echo(ack, "GS", 5) = {GsDate(1)}
       /\ Echo(ack, "GS", 6) = {GsTime(1)}
       /\ Echo(ack, "GS", 7) = {d.gsCtrl}

(***************************************************************************)
(* The header variants by what the extraction makes of them.  A variant in *)
(* one of the three sets below lacks the header, lacks one of the fields   *)
(* the extraction captures, or has a date, time or control number of the   *)
(* wrong digit width or with a non-digit in it.  The remaining variants    *)
(* that are not "ok" ("dropLast", "extraField") have a wrong field count   *)
(* in a part of the header the extraction does not read.                   *)
(***************************************************************************)
IsaRejected == {"missing", "noReceiver", "shortDate", "longTime", "alphaCtrl"}

GsRejected == {"missing", "wrongType", "shortDate"}

StRejected == {"missing", "noCtrl"}

IsaError == "invalid ISA segment: expected 5 captures, got -1"

GsError == "invalid GS segment: expected 5 captures, got -1"

StError == "invalid ST segment: could not find control number"

C9_FirstOccurrenceHonored ==
  \A i \in 1..Len(calls) :
    LET d   == calls[i].doc
        ack == AckLines(calls[i].res.text)
    IN d.n > 1
         => /\ calls[i].res.err = ""
            /\ Echo(ack, "ISA", 14) = {d.isaCtrl}
            /\ Echo(ack, "IEA", 3) = {d.isaCtrl}
            /\ Echo(ack, "GS", 5) = {GsDate(1)}
            /\ Echo(ack, "GS", 6) = {GsTime(1)}
            /\ Echo(ack, "GS", 7) = {d.gsCtrl}
            /\ Echo(ack, "ST", 3) = {d.stCtrl}

(***************************************************************************)
(* C10  The date and time of the acknowledgment's ISA header are those the *)
(* clock shows at build time and do not depend on the date and time of the *)
(* inbound ISA header, while the interchange control number of that header *)
(* is the inbound one; two builds for the same senderId at the same clock  *)
(* value, of the same document or of documents that differ in the inbound  *)
(* ISA date and time only, return the same text.                           *)
(***************************************************************************)
\* Clocks as YYMMDD and HHMM.
ClockStamps == << <<"250508", "1540">>, <<"261104", "0905">> >>

C10_IsaStampFromClock ==
  /\ \A i \in Built :
       LET ack == AckLines(calls[i].res.text)
       IN /\ Echo(ack, "ISA", 10) = {ClockStamps[calls[i].clock][1]}
          /\ Echo(ack, "ISA", 11) = {ClockStamps[calls[i].clock][2]}
          /\ WellFormed(calls[i].doc)
               => Echo(ack, "ISA", 14) = {calls[i].doc.isaCtrl}
  /\ \A i, j \in 1..Len(calls) :
       /\ calls[i].senderID = calls[j].senderID
       /\ calls[i].clock = calls[j].clock
       /\ calls[j].doc \in {calls[i].doc, Twin(calls[i].doc)}
       => calls[i].res = calls[j].res

C10_Witness ==
  /\ Len(calls) = 2
  /\ WellFormed(calls[1].doc)
  /\ calls[1].doc.stamp = 1
  /\ calls[2].doc = Twin(calls[1].doc)
  /\ calls[1].clock = 2
  /\ calls[2].clock = 2
  /\ calls[2].res.text # ""

(***************************************************************************)
(* The calls the caller of SpecCkpt has made, in order.                    *)
(***************************************************************************)
Hist == procs[1].hist

\* Call j is a load that follows the successful save i with only loads in
\* between, and the file system did not fail it.
LoadsBack(i, j) ==
  /\ i < j
  /\ Hist[i].op = "save" /\ Hist[i].err = ""
  /\ \A k \in (i + 1)..j : Hist[k].op = "load"
  /\ Hist[j].err \notin IOErrors

(***************************************************************************)
(* C11  As claimed: for every string v, a LoadCheckpoint that follows      *)
(* SaveCheckpoint(dir, v) with no save in between returns exactly v, and   *)
(* so does every further load until the next save.                         *)
(***************************************************************************)
C11_RoundTrip ==
  \A i, j \in 1..Len(Hist) :
    LoadsBack(i, j) => Hist[j].err = "" /\ Hist[j].val = Hist[i].arg

(***************************************************************************)
(* C11  As amended: for every string v that is valid UTF-8, a              *)
(* LoadCheckpoint that follows SaveCheckpoint(dir, v) with no save in      *)
(* between returns exactly v, and so does every further load until the     *)
(* next save; for a v that is not valid UTF-8 the loads return v with each *)
(* invalid byte replaced by U+FFFD.                                        *)
(***************************************************************************)
RECURSIVE ToValidUTF8(_)
ToValidUTF8(s) ==
  IF s = "" THEN ""
  ELSE (IF Ch(s, 1) = BadByte THEN Replacement ELSE Ch(s, 1))
         \o ToValidUTF8(Tail(s))

C11_RoundTripValidUTF8 ==
  \A i, j \in 1..Len(Hist) :
    LoadsBack(i, j) =>
      /\ Hist[j].err = ""
      /\ Hist[j].val = ToValidUTF8(Hist[i].arg)
      /\ ValidUTF8(Hist[i].arg) => Hist[j].val = Hist[i].arg

C11_Witness ==
  /\ Len(Hist) = 3
  /\ LoadsBack(1, 2) /\ LoadsBack(1, 3)
  /\ Hist[1].arg = "A" \o Quote \o "<" \o Backslash \o NL
  /\ Hist[3].val = Hist[1].arg

(***************************************************************************)
(* C12  A LoadCheckpoint that finds no checkpoint file (and that the file  *)
(* system does not fail) creates the file holding the empty watermark and  *)
(* returns the empty string; the file exists afterwards, and a second      *)
(* LoadCheckpoint returns the empty string again and leaves the file as it *)
(* is.                                                                     *)
(***************************************************************************)
C12_Bootstrap ==
  \A j \in 1..Len(Hist) :
    Hist[j].op = "load" /\ ~Hist[j].before.exists /\ Hist[j].err \notin IOErrors
      => /\ Hist[j].err = "" /\ Hist[j].val = ""
         /\ Hist[j].after.exists
         /\ Hist[j].after = JsonFile("")
         /\ DecodeCheckpoint(Hist[j].after.text) = [err |-> "", val |-> ""]
         /\ j < Len(Hist) /\ Hist[j + 1].op = "load"
              /\ Hist[j + 1].err \notin IOErrors
              => /\ Hist[j + 1].err = "" /\ Hist[j + 1].val = ""
                 /\ Hist[j + 1].before = Hist[j].after
                 /\ Hist[j + 1].after = Hist[j].after

C12_Witness ==
  /\ Len(Hist) >= 2
  /\ Hist[1].op = "load" /\ ~Hist[1].before.exists /\ Hist[1].err = ""
  /\ Hist[2].op = "load" /\ Hist[2].err = ""

(***************************************************************************)
(* A checkpoint file that cannot be parsed: it exists and holds no         *)
(* complete record (none of the files here has a closing brace without     *)
(* being one).                                                             *)
(***************************************************************************)
Unparsable(f) == f.exists /\ ~Contains(f.text, "}")

(***************************************************************************)
(* C13  When main has found the checkpoint file to exist and the file      *)
(* cannot be parsed, LoadCheckpoint returns an error and no watermark:     *)
(* main exits with status 1 at that step, with the checkpoint file and the *)
(* order files as they were, and a run that has exited takes no further    *)
(* step (it fetches no feed, writes no order file).                        *)
(***************************************************************************)
C13_CorruptCheckpointAborts ==
  [][\A p \in Cycles :
       /\ procs[p].pc = "loadOpen" /\ Unparsable(ckpt) /\ procs'[p] # procs[p]
            => /\ procs'[p].pc = "failed"
               /\ StartsWith(procs'[p].err, "Failed to load checkpoint: ")
               /\ procs'[p].lastCtrl = procs[p].lastCtrl
               /\ ckpt' = ckpt
               /\ saved' = saved
       /\ procs[p].pc = "failed" => procs'[p] = procs[p]]_vars

C13_Witness ==
  \E p \in Cycles :
    /\ procs[p].pc = "failed"
    /\ procs[p].err = "Failed to load checkpoint: unexpected EOF"
    /\ ckpt = CorruptFile
    /\ saved = <<>>

(***************************************************************************)
(* The watermark a load would have returned when call j began: that of     *)
(* the file if it held a record, the empty one if there was no file.       *)
(***************************************************************************)
Previous(j) ==
  LET f == Hist[j].before
      cp == DecodeCheckpoint(f.text)
  IN IF ~f.exists THEN {""}
     ELSE IF cp.err = "" THEN {cp.val}
     ELSE {}

\* Call j is a save that returned an error, and call j + 1 a load that
\* returned a watermark.
LoadAfterFailedSave(j) ==
  /\ j < Len(Hist)
  /\ Hist[j].op = "save" /\ Hist[j].err # ""
  /\ Hist[j + 1].op = "load" /\ Hist[j + 1].err = ""

(***************************************************************************)
(* C14  As claimed: when a SaveCheckpoint has failed or was interrupted    *)
(* after it started, the next LoadCheckpoint never succeeds with a value   *)
(* other than the previously saved watermark or the new one, and never     *)
(* succeeds on a file that holds only a part of what the save was writing. *)
(***************************************************************************)
C14_AllOrNothing ==
  \A j \in 1..Len(Hist) :
    LoadAfterFailedSave(j) =>
      /\ Hist[j + 1].val \in Previous(j) \cup {Hist[j].arg}
      /\ Hist[j].err # "write"

(***************************************************************************)
(* C14  As amended: when a SaveCheckpoint has failed or was interrupted    *)
(* after it started, the next LoadCheckpoint never succeeds with a value   *)
(* other than the previously saved watermark or the new one (the new one   *)
(* with each byte that is not UTF-8 replaced by U+FFFD); a partially       *)
(* written file is accepted only if it lacks nothing but the line feed     *)
(* that ends the file, and then as the new watermark; the truncated file   *)
(* and every shorter part of the record make LoadCheckpoint fail.          *)
(***************************************************************************)
C14_NoTornValue ==
  \A j \in 1..Len(Hist) :
    /\ LoadAfterFailedSave(j) =>
         /\ Hist[j + 1].val \in Previous(j) \cup {ToValidUTF8(Hist[j].arg)}
         /\ Hist[j].err = "write" =>
              /\ Hist[j].after.text \o NL = EncodeCheckpoint(Hist[j].arg)
              /\ Hist[j + 1].val = ToValidUTF8(Hist[j].arg)
    /\ j < Len(Hist) /\ Hist[j].op = "save" /\ Hist[j].err = "write"
         /\ Hist[j].after.text \o NL # EncodeCheckpoint(Hist[j].arg)
         /\ Hist[j + 1].op = "load"
         => Hist[j + 1].err # ""

\* A save over the record of "9" stops inside the value; the load fails.
C14_Witness ==
  /\ Len(Hist) = 3
  /\ Hist[1].op = "save" /\ Hist[1].err = "" /\ Hist[1].arg = "9"
  /\ Hist[2].op = "save" /\ Hist[2].err = "write"
  /\ Hist[2].arg = "A" \o Quote \o "<" \o Backslash \o NL
  /\ Len(Hist[2].after.text) = Len(EncodeCheckpoint(Hist[2].arg)) - 4
  /\ Hist[3].op = "load" /\ Hist[3].err = "unexpected EOF"

(***************************************************************************)
(* C15  As claimed: LoadCheckpoint creates the default checkpoint          *)
(* atomically: a step of its creation of the default file (the             *)
(* SaveCheckpoint(dir, "") it calls after it found no file) never changes  *)
(* a checkpoint file that exists by then, so a watermark another cycle     *)
(* saved in between is not overwritten with the empty value.               *)
(***************************************************************************)
C15_DefaultCreationAtomic ==
  [][\A p \in Cycles :
       /\ procs[p].pc \in {"saveCreate", "saveEncode"}
       /\ procs[p].ret = "default"
       /\ procs'[p] # procs[p]
       /\ \E v \in PoNumbers \ {""} : ckpt = JsonFile(v)
       => ckpt' = ckpt]_vars

(***************************************************************************)
(* The order-feed phase of a run, read back from the state.                *)
(***************************************************************************)
\* a orders strictly before b in lexicographic order: at the first place
\* where they differ a has ended or has the smaller byte.
LexBefore(a, b) ==
  \E k \in 1..Len(b) :
    /\ k - 1 <= Len(a)
    /\ SubSeq(a, 1, k - 1) = SubSeq(b, 1, k - 1)
    /\ k <= Len(a) => Code(Ch(a, k)) < Code(Ch(b, k))

\* The greatest of a set of strings in lexicographic order.
LexMax(S) == CHOOSE x \in S : \A y \in S : y = x \/ LexBefore(y, x)

\* The numbers of the order files run p has written, in order.
SavedBy(p) ==
  LET mine == SelectSeq(saved, LAMBDA r : r.by = p)
  IN [k \in 1..Len(mine) |-> mine[k].po]

\* The records of batch whose identifier is greater than the watermark.
NewRecords(watermark, batch) ==
  SelectSeq(batch, LAMBDA id : LexBefore(watermark, id))

\* Run p has decoded the feed and is in or past the loop over the batch.
InFeedLoop(p) ==
  \/ procs[p].pc = "filter"
  \/ procs[p].pc \in {"saveCreate", "saveEncode"} /\ procs[p].ret = "main"
  \/ procs[p].pc = "failed"
       /\ \/ procs[p].err = "Failed to write order file"
          \/ StartsWith(procs[p].err, "Failed to save checkpoint: ")
  \/ procs[p].pc = "done" /\ cfg.apiActive

\* Run p has examined the whole batch.
PastFeedLoop(p) ==
  /\ InFeedLoop(p)
  /\ procs[p].pc # "filter"
  /\ procs[p].err # "Failed to write order file"

\* The part of its batch run p has examined.
Examined(p) == SubSeq(procs[p].batch, 1, procs[p].j - 1)

(***************************************************************************)
(* C16  The order files a run writes in its order-feed phase are exactly   *)
(* the records of the batch whose identifier is strictly greater than the  *)
(* watermark loaded at the start of the phase in lexicographic order (with *)
(* watermark "9" the identifier "10" is not new), in the order of the      *)
(* batch; the loop ends only when the whole batch was examined.  With      *)
(* watermark "0000100" the batch 0000099, 0000150, 0000120 gives 0000150   *)
(* and 0000120.                                                            *)
(***************************************************************************)
C16_NewRecordsPersisted ==
  /\ \A p \in Cycles :
       /\ InFeedLoop(p) =>
            SavedBy(p) = NewRecords(procs[p].lastCtrl, Examined(p))
       /\ PastFeedLoop(p) =>
            /\ Examined(p) = procs[p].batch
            /\ SavedBy(p) = NewRecords(procs[p].lastCtrl, procs[p].batch)
  /\ ~IsNew("10", "9")
  /\ SelectSeq(<<"0000099", "0000150", "0000120">>,
               LAMBDA id : IsNew(id, "0000100")) = <<"0000150", "0000120">>

C16_Witness ==
  \E p \in Cycles :
    /\ procs[p].pc = "done"
    /\ procs[p].lastCtrl = "10"
    /\ procs[p].batch = <<"9", "10">>
    /\ SavedBy(p) = <<"9">>

(***************************************************************************)
(* C17  The watermark the order-feed phase computes is the greatest, in    *)
(* lexicographic order, of the loaded watermark and the identifiers of the *)
(* batch, so it is never less than the loaded watermark, also for an empty *)
(* or entirely stale batch; it is the watermark a completed run leaves in  *)
(* the checkpoint file.                                                    *)
(***************************************************************************)
C17_WatermarkIsMaximum ==
  \A p \in Cycles :
    /\ InFeedLoop(p) =>
         /\ procs[p].highest =
              LexMax({procs[p].lastCtrl}
                       \cup {Examined(p)[k] : k \in 1..Len(Examined(p))})
         /\ ~LexBefore(procs[p].highest, procs[p].lastCtrl)
    /\ PastFeedLoop(p) =>
         procs[p].highest =
           LexMax({procs[p].lastCtrl}
                    \cup {procs[p].batch[k] : k \in 1..Len(procs[p].batch)})
    /\ procs[p].pc = "done" /\ cfg.apiActive
         /\ (\A q \in Cycles : q > p => procs[q].pc = "idle")
         => DecodeCheckpoint(ckpt.text) = [err |-> "", val |-> procs[p].highest]

C17_Witness ==
  \E p \in Cycles :
    /\ procs[p].pc = "done"
    /\ procs[p].lastCtrl = ""
    /\ procs[p].batch = <<"9", "10">>
    /\ procs[p].highest = "9"
    /\ ckpt = JsonFile("9")

(***************************************************************************)
(* C18  As claimed: over every sequence of cycles that do not overlap,     *)
(* whatever the batches (also batches that repeat an identifier) and also  *)
(* when cycles abort on an error, no order identifier is saved to local    *)
(* storage a second time.                                                  *)
(***************************************************************************)
C18_NeverSavedAgain ==
  \A a, b \in 1..Len(saved) : a # b => saved[a].po # saved[b].po

(***************************************************************************)
(* The checkpoint file over a run of the order-feed phase.                 *)
(***************************************************************************)
\* No run after p has started: the checkpoint file is as p left it.
Latest(p) == \A q \in Cycles : q > p => procs[q].pc = "idle"

\* The computed watermark of run p differs from the loaded one.
Advanced(p) == procs[p].highest # procs[p].lastCtrl

\* Run p has reached the save of the watermark (main.go:168-173).
ReachedSave(p) == PastFeedLoop(p) /\ procs[p].pc # "done"

\* The batch of run p has no identifier greater than the loaded watermark.
StaleBatch(p) == NewRecords(procs[p].lastCtrl, procs[p].batch) = <<>>

\* The checkpoint file is the one run p found when it started.
Untouched(p) == ckpt = procs[p].before

\* Run p found no checkpoint file and LoadCheckpoint created the file of
\* the empty watermark.
Bootstrapped(p) == ~procs[p].before.exists /\ ckpt = JsonFile("")

\* Run q is the cycle after the completed run p, on the same batch, and
\* has examined the batch.
Repeats(q, p) ==
  /\ q = p + 1
  /\ procs[p].pc = "done"
  /\ cfg.apiActive
  /\ PastFeedLoop(q)
  /\ procs[q].batch = procs[p].batch

\* The save follows the loop iff the watermark advanced, and a completed
\* run leaves the new watermark in the file.
SavedIffAdvanced ==
  \A p \in Cycles :
    /\ ReachedSave(p) => Advanced(p)
    /\ PastFeedLoop(p) /\ Advanced(p) /\ procs[p].pc = "done" /\ Latest(p)
         => ckpt = JsonFile(procs[p].highest)
    /\ PastFeedLoop(p) /\ StaleBatch(p) =>
         /\ ~Advanced(p)
         /\ procs[p].pc = "done"
         /\ SavedBy(p) = <<>>

(***************************************************************************)
(* C19  As claimed: the order-feed phase writes the checkpoint file if and *)
(* only if the computed watermark differs from the loaded one; a cycle     *)
(* whose batch has no identifier greater than the loaded watermark writes  *)
(* no order file and leaves the checkpoint file untouched, and repeating a *)
(* completed cycle on the same batch changes nothing.                      *)
(***************************************************************************)
C19_WrittenIffAdvanced ==
  /\ SavedIffAdvanced
  /\ \A p \in Cycles :
       PastFeedLoop(p) /\ ~Advanced(p) /\ Latest(p) => Untouched(p)
  /\ \A p, q \in Cycles :
       Repeats(q, p) => SavedBy(q) = <<>> /\ Untouched(q)

(***************************************************************************)
(* C19  The save of the watermark follows the loop if and only if the      *)
(* computed watermark differs from the loaded one; a cycle whose batch has *)
(* no identifier greater than the loaded watermark writes no order file    *)
(* and leaves the checkpoint file as it found it, except that a missing    *)
(* file has been created with the empty watermark when the watermark was   *)
(* loaded; repeating a completed cycle on the same batch writes no order   *)
(* file and leaves the checkpoint file untouched.                          *)
(***************************************************************************)
C19_WrittenIffAdvancedOrMissing ==
  /\ SavedIffAdvanced
  /\ \A p \in Cycles :
       PastFeedLoop(p) /\ ~Advanced(p) /\ Latest(p) =>
         Untouched(p) \/ Bootstrapped(p)
  /\ \A p, q \in Cycles :
       Repeats(q, p) =>
         /\ SavedBy(q) = <<>>
         /\ Untouched(q)
         /\ procs[q].lastCtrl = procs[p].highest

C19_Witness ==
  /\ procs[1].pc = "done"
  /\ procs[1].before = NoFile
  /\ procs[1].batch = <<"9">>
  /\ SavedBy(1) = <<"9">>
  /\ Repeats(2, 1)
  /\ procs[2].pc = "done"
  /\ SavedBy(2) = <<>>
  /\ ckpt = JsonFile("9")

(***************************************************************************)
(* The phases of a run.                                                    *)
(***************************************************************************)
\* The statements of the inbound phase (main.go:62-111) and of the
\* order-feed phase (main.go:114-174).
InboundSteps == {"fetch", "fetchEntry", "upload"}

FeedSteps ==
  {"loadCheckpoint", "loadOpen", "saveCreate", "saveEncode", "token", "api",
   "unmarshal", "filter"}

\* Run p has completed the inbound phase: its connectivity test file is in
\* the outbound directory.
InboundDone(p) ==
  \E k \in 1..Len(outbound) :
    outbound[k].by = p /\ outbound[k].name = "ConnectivityTest"

\* Run p takes the step.
Steps(p) == procs'[p] # procs[p]

\* The step is an exit of run p with status 1.
Exits(p) == procs'[p].pc = "failed"

\* Nothing of the order-feed phase has happened in run p: no watermark
\* loaded, no feed fetched, no order file written.
FeedNotStarted(p) ==
  /\ procs[p].ret = ""
  /\ procs[p].lastCtrl = ""
  /\ procs[p].raw = <<>>
  /\ procs[p].batch = <<>>
  /\ SavedBy(p) = <<>>
  /\ Untouched(p)

\* The phases of run p in a step: the inbound phase touches neither the
\* checkpoint file nor the order files and is left for the order feed only
\* by the completed upload; a failure in it is an exit; the order feed is
\* not left for the inbound phase; a run that has ended takes no step.
PhasesInOrder(p) ==
  /\ ~Finished(p)
  /\ procs[p].pc \in InboundSteps =>
       /\ cfg.ediActive
       /\ FeedNotStarted(p)
       /\ ckpt' = ckpt /\ saved' = saved
       /\ procs'[p].pc \in InboundSteps \cup {"failed", "done", "loadCheckpoint"}
       /\ procs'[p].pc \in {"done", "loadCheckpoint"} =>
            /\ procs[p].pc = "upload"
            /\ ~InboundDone(p)
            /\ outbound' = Append(outbound,
                                  [name |-> "ConnectivityTest",
                                   data |-> ConnectivityTestPayload, by |-> p])
       /\ Exits(p) =>
            /\ procs'[p].err \in {"SFTP download failed",
                                  "ConnectivityTest upload failed"}
            /\ outbound' = outbound
  /\ procs[p].pc \in FeedSteps =>
       /\ cfg.apiActive
       /\ cfg.ediActive => InboundDone(p)
       /\ procs'[p].pc \in FeedSteps \cup {"failed", "done"}
       /\ outbound' = outbound /\ inbound' = inbound
       /\ localFiles' = localFiles

(***************************************************************************)
(* C20  As claimed: the phases of a run are in sequence, none is entered   *)
(* again, and a failure ends the run: the order feed starts only when the  *)
(* inbound phase has completed; a failure in the inbound phase is an exit  *)
(* with status 1 before the checkpoint is loaded or created, the feed      *)
(* fetched or an order file written; a failure of the token or feed fetch  *)
(* is an exit before any order file and any checkpoint write.              *)
(***************************************************************************)
C20_PhasesFailFast ==
  [][\A p \in Cycles :
       Steps(p) =>
         /\ PhasesInOrder(p)
         /\ procs[p].pc \in {"token", "api"} /\ Exits(p) =>
              /\ procs'[p].err \in {"Error fetching OAuth2 token",
                                    "Error fetching data from SP-API"}
              /\ SavedBy(p) = <<>> /\ saved' = saved
              /\ Untouched(p) /\ ckpt' = ckpt]_vars

(***************************************************************************)
(* C20  The phases of a run are in sequence, none is entered again, and a  *)
(* failure ends the run: the order feed starts only when the inbound phase *)
(* has completed; a failure in the inbound phase is an exit with status 1  *)
(* before the checkpoint is loaded or created, the feed fetched or an      *)
(* order file written; a failure of the token or feed fetch is an exit     *)
(* before any order file is written and before the watermark is saved: the *)
(* checkpoint file is as the run found it, or was missing and has been     *)
(* created with the empty watermark when the watermark was loaded.         *)
(***************************************************************************)
C20_PhasesFailFastAfterLoad ==
  [][\A p \in Cycles :
       Steps(p) =>
         /\ PhasesInOrder(p)
         /\ procs[p].pc \in {"token", "api"} /\ Exits(p) =>
              /\ procs'[p].err \in {"Error fetching OAuth2 token",
                                    "Error fetching data from SP-API"}
              /\ SavedBy(p) = <<>> /\ saved' = saved
              /\ Untouched(p) \/ Bootstrapped(p)
              /\ ckpt' = ckpt]_vars

C20_Witness ==
  /\ cfg.ediActive /\ cfg.apiActive
  /\ procs[1].pc = "failed"
  /\ procs[1].err = "ConnectivityTest upload failed"
  /\ procs[1].files # <<>>
  /\ procs[1].ret = "" /\ procs[1].raw = <<>>
  /\ SavedBy(1) = <<>>
  /\ procs[1].before = NoFile
  /\ procs[2].pc = "failed"
  /\ procs[2].err = "Error fetching data from SP-API"
  /\ InboundDone(2)
  /\ Bootstrapped(2)
  /\ saved = <<>>

(***************************************************************************)
(* A run of the order feed that ends before its save of the watermark.     *)
(***************************************************************************)
\* The checkpoint file holds the watermark w.
Holds(w) ==
  ckpt.exists /\ DecodeCheckpoint(ckpt.text) = [err |-> "", val |-> w]

\* Run p is in the order-feed phase or has ended in it by an error or a
\* kill.
InFeedPhase(p) ==
  \/ procs[p].pc \in FeedSteps
  \/ /\ procs[p].pc = "failed"
     /\ procs[p].err \notin {"Failed to load config",
                             "No valid API or EDI configuration found",
                             "killed at start"}

\* Run p has not come to the save after the loop (main.go:168-173).
BeforeSave(p) == InFeedPhase(p) /\ procs[p].ret # "main"

\* LoadCheckpoint has returned the watermark to run p.
AfterLoad(p) ==
  \/ procs[p].pc \in {"token", "api", "unmarshal", "filter"}
  \/ /\ procs[p].pc = "failed"
     /\ procs[p].err \in {"Error fetching OAuth2 token",
                          "Error fetching data from SP-API",
                          "Invalid JSON from SP-API",
                          "Failed to write order file",
                          "killed at token", "killed at api",
                          "killed at unmarshal", "killed at filter"}

\* The identifiers of which an order file exists.
OrderFiles == {saved[k].po : k \in 1..Len(saved)}

Ids(batch) == {batch[k] : k \in 1..Len(batch)}

\* Run q is a complete cycle that follows the run p, which ended before
\* its save, on the batch p had if p had fetched one.
CompletesAfter(q, p) ==
  /\ q = p + 1
  /\ procs[p].pc = "failed"
  /\ BeforeSave(p)
  /\ procs[q].pc = "done"
  /\ procs[p].raw \in {<<>>, procs[q].batch}

\* What an uninterrupted cycle on the watermark w and the batch leaves:
\* the greatest identifier as watermark, the new records as order files.
AsUninterrupted(w, batch) ==
  /\ Holds(LexMax({w} \cup Ids(batch)))
  /\ OrderFiles = Ids(NewRecords(w, batch))

(***************************************************************************)
(* C21  When a cycle is killed or aborts in the order-feed phase before    *)
(* its save of the watermark, the checkpoint file still holds the          *)
(* watermark that was loaded at the start of the phase, and a later        *)
(* complete cycle on the same batch loads that watermark and ends with the *)
(* checkpoint and the order files of an uninterrupted cycle.  While the    *)
(* watermark is being loaded an existing file is untouched.                *)
(***************************************************************************)
C21_InterruptKeepsWatermark ==
  /\ \A p \in Cycles :
       BeforeSave(p) /\ Latest(p) =>
         /\ AfterLoad(p) => Holds(procs[p].lastCtrl)
         /\ ~AfterLoad(p) /\ procs[p].before.exists => Untouched(p)
  /\ \A p, q \in Cycles :
       CompletesAfter(q, p) /\ AfterLoad(p) =>
         /\ procs[q].lastCtrl = procs[p].lastCtrl
         /\ AsUninterrupted(procs[p].lastCtrl, procs[q].batch)

C21_Witness ==
  /\ procs[1].err = "killed at filter"
  /\ procs[1].lastCtrl = ""
  /\ procs[1].batch = <<"10", "9">>
  /\ SavedBy(1) = <<"10">>
  /\ CompletesAfter(2, 1)
  /\ SavedBy(2) = <<"10", "9">>
  /\ ckpt = JsonFile("9")

(***************************************************************************)
(* The watermark over a sequence of cycles.                                *)
(***************************************************************************)
\* The file f holds a watermark: it exists and can be decoded.
Decodable(f) == f.exists /\ DecodeCheckpoint(f.text).err = ""

Watermark(f) == DecodeCheckpoint(f.text).val

\* The watermark of file g is not below that of file f, if both hold one.
NotBelow(g, f) ==
  Decodable(f) /\ Decodable(g) => ~LexBefore(Watermark(g), Watermark(f))

(***************************************************************************)
(* C22  With at most one cycle at a time the watermark in the checkpoint   *)
(* file never decreases in lexicographic order, whatever the batches and   *)
(* whether cycles complete, abort or are killed: in a step it is not below *)
(* what it was, nor below the watermark any run found when it started,     *)
(* and a run does not start with a watermark below that of an earlier run. *)
(***************************************************************************)
C22_WatermarkNeverDecreases ==
  [][/\ NotBelow(ckpt', ckpt)
     /\ \A p \in Cycles :
          procs[p].pc # "idle" => NotBelow(ckpt', procs[p].before)
     /\ \A p, q \in Cycles :
          p < q /\ procs'[q].pc # "idle" =>
            NotBelow(procs'[q].before, procs'[p].before)]_vars

C22_Witness ==
  /\ procs[1].before = JsonFile("")
  /\ procs[1].pc = "done"
  /\ procs[2].before = JsonFile("10")
  /\ procs[2].pc = "done"
  /\ ckpt = JsonFile("9")

(***************************************************************************)
(* Cycles that overlap on one storage directory.                           *)
(***************************************************************************)
\* The step is the return of the save of run p after its loop.
SaveReturns(p) ==
  /\ procs[p].pc = "saveEncode"
  /\ procs[p].ret = "main"
  /\ procs'[p].pc = "done"

\* An order file of the identifier id was written more than once.
SavedTwice(id) ==
  \E a, b \in 1..Len(saved) : a # b /\ saved[a].po = id /\ saved[b].po = id

(***************************************************************************)
(* C23  Nothing keeps overlapping cycles apart: each run decides by the    *)
(* watermark it loaded alone, so it writes an order file for every record  *)
(* above that watermark whatever the other run has written, and its save   *)
(* leaves its own computed watermark in the file whatever the file held.   *)
(* So there are interleavings in which both runs load the same watermark   *)
(* and save the same order, and in which the checkpoint ends below the     *)
(* highest identifier saved (the witness).                                 *)
(***************************************************************************)
C23_OverlapUnguarded ==
  /\ [](\A p \in Cycles :
          InFeedLoop(p) =>
            SavedBy(p) = NewRecords(procs[p].lastCtrl, Examined(p)))
  /\ [][\A p \in Cycles :
          SaveReturns(p) =>
            /\ Decodable(ckpt')
            /\ Watermark(ckpt') = procs[p].highest]_vars

C23_Witness ==
  /\ procs[1].pc = "done" /\ procs[2].pc = "done"
  /\ procs[1].lastCtrl = "" /\ procs[2].lastCtrl = ""
  /\ procs[1].batch = <<"10", "9">>
  /\ procs[2].batch = <<"10">>
  /\ SavedTwice("10")
  /\ "9" \in OrderFiles
  /\ Holds("10")
  /\ LexBefore("10", "9")

(***************************************************************************)
(* The end of a run.                                                       *)
(***************************************************************************)
\* The messages of an error in the inbound phase or in the order feed.
PhaseError(e) ==
  \/ e \in {"SFTP download failed", "ConnectivityTest upload failed",
            "Error fetching OAuth2 token", "Error fetching data from SP-API",
            "Invalid JSON from SP-API", "Failed to write order file"}
  \/ StartsWith(e, "Failed to load checkpoint: ")
  \/ StartsWith(e, "Failed to save checkpoint: ")

NoneActive == ~cfg.ediActive /\ ~cfg.apiActive

\* Every run that has started ends.
RunsEnd == \A p \in Cycles : procs[p].pc = "start" ~> Finished(p)

(***************************************************************************)
(* C24  As claimed: a run whose configuration was loaded ends, and ends    *)
(* with the success message and status 0 unless a phase had an error, for  *)
(* every combination of active integrations: none, inbound only, order     *)
(* feed only, both.                                                        *)
(***************************************************************************)
C24_SucceedsUnlessPhaseError ==
  /\ RunsEnd
  /\ [](\A p \in Cycles :
          procs[p].pc = "failed" =>
            PhaseError(procs[p].err) \/ procs[p].err = "Failed to load config")

(***************************************************************************)
(* C24  A run whose configuration was loaded ends; with the inbound        *)
(* integration, the order feed or both active it ends with the success     *)
(* message and status 0 unless a phase had an error; with none active it   *)
(* ends with the message that no configuration is valid and status 1.      *)
(***************************************************************************)
C24_SucceedsUnlessPhaseErrorOrNoneActive ==
  /\ RunsEnd
  /\ [](\A p \in Cycles :
          /\ procs[p].pc = "failed" =>
               \/ PhaseError(procs[p].err)
               \/ procs[p].err = "Failed to load config"
               \/ /\ NoneActive
                  /\ procs[p].err = "No valid API or EDI configuration found"
          /\ procs[p].pc = "failed" /\ PhaseError(procs[p].err) => ~NoneActive
          /\ procs[p].pc = "done" => ~NoneActive /\ procs[p].err = "")

C24_Witness ==
  /\ cfg.ediActive /\ cfg.apiActive
  /\ procs[1].pc = "done"
  /\ procs[1].files # <<>>
  /\ InboundDone(1)
  /\ SavedBy(1) # <<>>
  /\ procs[1].err = ""

(***************************************************************************)
(* Inbound documents whose envelope cannot be extracted.                   *)
(***************************************************************************)
\* The entries of its listing that run p retrieved and whose extraction
\* fails.
Malformed(p) ==
  {i \in 1..Len(procs[p].entries) :
     /\ \E k \in 1..Len(procs[p].files) :
          procs[p].files[k] = procs[p].entries[i].name
     /\ AckOf(procs[p].entries[i]) = {}}

\* Run p is past the inbound phase and no error ended it there.
PastInbound(p) ==
  \/ procs[p].pc \in FeedSteps \cup {"done"}
  \/ procs[p].pc = "failed" /\ procs[p].err \notin
       {"Failed to load config", "SFTP download failed",
        "ConnectivityTest upload failed"}

(***************************************************************************)
(* C25  As claimed: a retrieved document whose extraction fails is skipped *)
(* and does not end the run: every other document retrieved in the same    *)
(* cycle is acknowledged, the order feed still runs when it is active, and *)
(* no run fails with an error other than a transport, checkpoint or feed   *)
(* error.                                                                  *)
(***************************************************************************)
C25_MalformedSkipped ==
  \A p \in Cycles :
    cfg.ediActive /\ Malformed(p) # {} =>
      /\ procs[p].pc = "failed" => PhaseError(procs[p].err)
      /\ procs[p].pc = "done" /\ cfg.apiActive => InFeedLoop(p)
      /\ PastInbound(p) =>
           \A i \in Acknowledgeable(p) : Pushed(p, procs[p].entries[i]) # {}

(***************************************************************************)
(* The fields of a Config, read by their path.                             *)
(***************************************************************************)
Get(c, path) ==
  IF Len(path) = 1 THEN c[path[1]]
  ELSE IF Len(path) = 2 THEN c[path[1]][path[2]]
  ELSE c[path[1]][path[2]][path[3]]

\* Every field of Config.
ConfigFields ==
  {<<"Version">>}
    \cup {<<"API", n>> : n \in {"Active", "BaseURL", "TokenURL", "EndpointURL"}}
    \cup {<<"API", "Auth", n>> :
            n \in {"ClientID", "ClientSecret", "ApplicationID", "RefreshToken"}}
    \cup {<<"EDI", n>> :
            n \in {"Active", "Host", "Port", "DownloadUsername",
                   "UploadUsername", "PrivateKeyPath", "InboundDir",
                   "OutboundDir", "SenderID"}}
    \cup {<<"Storage", n>> : n \in {"OutputFormat", "SavePath", "FileName"}}

\* The defaults as TestApplyDefaults expects them.
DocumentedDefaults ==
  [path \in {<<"API", "BaseURL">>, <<"API", "TokenURL">>,
             <<"API", "EndpointURL">>, <<"Storage", "OutputFormat">>,
             <<"Storage", "SavePath">>, <<"Storage", "FileName">>} |->
     CASE path = <<"API", "BaseURL">> ->
            "https://sellingpartnerapi-na.amazon.com"
       [] path = <<"API", "TokenURL">> -> "https://api.amazon.com/auth/o2/token"
       [] path = <<"API", "EndpointURL">> -> "/vendor/orders/v1/purchaseOrders"
       [] path = <<"Storage", "OutputFormat">> -> "json"
       [] path = <<"Storage", "SavePath">> -> "output/"
       [] path = <<"Storage", "FileName">> -> "data_dump"]

\* The calls of ApplyDefaults, of OverrideConfig.
DefaultsCalls == {k \in 1..Len(calls) : calls[k].op = "ApplyDefaults"}

OverrideCalls == {k \in 1..Len(calls) : calls[k].op = "OverrideConfig"}

(***************************************************************************)
(* C26  ApplyDefaults sets each of API.BaseURL, API.TokenURL,              *)
(* API.EndpointURL, Storage.OutputFormat, Storage.SavePath and             *)
(* Storage.FileName to its documented default exactly when the field is    *)
(* empty, leaves every field that is not empty and every other field as it *)
(* is, and a second application changes nothing.                           *)
(***************************************************************************)
C26_ApplyDefaults ==
  \A k \in DefaultsCalls :
    LET b == calls[k].before
        a == calls[k].after
    IN /\ \A path \in DOMAIN DocumentedDefaults :
            Get(a, path) = IF Get(b, path) = "" THEN DocumentedDefaults[path]
                           ELSE Get(b, path)
       /\ \A path \in ConfigFields \ DOMAIN DocumentedDefaults :
            Get(a, path) = Get(b, path)
       /\ ApplyDefaults(a) = a
       /\ k > 1 /\ k - 1 \in DefaultsCalls => a = b

C26_Witness ==
  /\ Len(calls) = 2
  /\ DefaultsCalls = {1, 2}
  /\ calls[1].before.API.BaseURL = ""
  /\ calls[1].before.Storage.FileName = "set"
  /\ calls[1].before.EDI.Host = "set"
  /\ cfg.API.BaseURL = "https://sellingpartnerapi-na.amazon.com"
  /\ cfg.Storage.FileName = "set"

\* The pointer an override has for the field at path, nil when a section
\* around it is nil or ConfigOverride has no such field.
PointerOf(o, path) ==
  IF path = <<"Version">> THEN o.Version
  ELSE IF o[path[1]] = Nil THEN Nil
  ELSE LET sec == o[path[1]][1] IN
       IF Len(path) = 2
       THEN IF path[2] \in DOMAIN sec THEN sec[path[2]] ELSE Nil
       ELSE IF sec[path[2]] = Nil THEN Nil ELSE sec[path[2]][1][path[3]]

(***************************************************************************)
(* C27  OverrideConfig gives a field the value of the override exactly     *)
(* when the override's pointer for the field and the pointers of the       *)
(* sections around it are not nil, and leaves every field whose pointer is *)
(* nil as it is; an override of nil pointers only changes nothing.         *)
(***************************************************************************)
C27_OverrideConfig ==
  \A k \in OverrideCalls :
    LET b == calls[k].before
        a == calls[k].after
        o == calls[k].o[1]
    IN /\ \A path \in ConfigFields :
            Get(a, path) = IF PointerOf(o, path) # Nil
                           THEN PointerOf(o, path)[1]
                           ELSE Get(b, path)
       /\ (\A path \in ConfigFields : PointerOf(o, path) = Nil) => a = b

C27_Witness ==
  \E k \in OverrideCalls :
    LET o == calls[k].o[1] IN
    /\ k = 2
    /\ o.API # Nil /\ o.API[1].Auth # Nil
    /\ o.API[1].Auth[1].ClientID = Ptr("new")
    /\ o.API[1].EndpointURL = Ptr("")
    /\ o.EDI = Nil
    /\ calls[k].before.API.Auth.ClientID = "set"
    /\ calls[k].before.API.EndpointURL = "set"
    /\ cfg.API.Auth.ClientID = "new"
    /\ cfg.API.EndpointURL = ""
    /\ cfg.EDI = calls[k].before.EDI

(***************************************************************************)
(* The remote inbound directory over a download.                           *)
(***************************************************************************)
\* The names of the entries of a listing that are files, in its order.
FileNames(listing) ==
  LET fs == SelectSeq(listing, LAMBDA e : ~e.isDir)
  IN [k \in 1..Len(fs) |-> fs[k].name]

\* The entry called name leaves the remote directory in the step.
Disappears(name) == Listed(inbound, name) /\ ~Listed(inbound', name)

\* FetchFilesOverSFTP returns to run p without an error in the step.
FetchReturns(p) ==
  procs[p].pc \in {"fetch", "fetchEntry"} /\ procs'[p].pc = "upload"

(***************************************************************************)
(* C28  FetchFilesOverSFTP removes a remote file only when deleteAfter is  *)
(* true and only when the local copy of that file is complete; with        *)
(* deleteAfter false no remote file is removed; an entry that is a         *)
(* directory is neither downloaded nor removed; the paths returned on      *)
(* success are those of the files of the listing, in its order.            *)
(***************************************************************************)
C28_RemoveAfterCopy ==
  [][/\ \A e \in Entries :
          /\ Disappears(e.name) =>
               /\ cfg.deleteAfter
               /\ ~e.isDir
               /\ localFiles'[e.name] = "complete"
          /\ e.isDir => localFiles'[e.name] = "absent"
     /\ ~cfg.deleteAfter => inbound' = inbound
     /\ \A p \in Cycles :
          FetchReturns(p) => procs'[p].files = FileNames(procs'[p].entries)]_vars

C28_Witness ==
  /\ cfg.deleteAfter
  /\ procs[1].pc = "upload"
  /\ Len(procs[1].entries) = 2
  /\ procs[1].entries[1].isDir
  /\ procs[1].files = <<"PO1.edi">>
  /\ localFiles["PO1.edi"] = "complete"
  /\ Listed(inbound, "archive")
  /\ ~Listed(inbound, "PO1.edi")

(***************************************************************************)
(* The order files and the watermark.                                      *)
(***************************************************************************)
\* The checkpoint file holds a watermark and no order file has an
\* identifier above it.
Covered ==
  /\ Decodable(ckpt)
  /\ \A id \in OrderFiles : ~LexBefore(Watermark(ckpt), id)

\* Run p is between the write of an order file and its save of the
\* watermark.
BetweenWriteAndSave(p) ==
  /\ procs[p].pc \in {"filter", "saveCreate", "saveEncode"}
  /\ SavedBy(p) # <<>>

\* Run p has ended by an error or a kill after it wrote an order file.
AbortedAfterWrite(p) == procs[p].pc = "failed" /\ SavedBy(p) # <<>>

(***************************************************************************)
(* C29  With cycles that do not overlap, when a cycle has completed with   *)
(* success every identifier of which an order file exists is less than or  *)
(* equal to the watermark in the checkpoint file, unless an earlier cycle  *)
(* was aborted after it wrote an order file; in every state where an order *)
(* file is above the watermark a run is between the write of an order file *)
(* and its save, or a run was aborted after a write.                       *)
(***************************************************************************)
C29_OrderFilesCovered ==
  /\ \A p \in Cycles :
       /\ procs[p].pc = "done"
       /\ Latest(p)
       /\ \A q \in Cycles : q < p => ~AbortedAfterWrite(q)
       => Covered
  /\ OrderFiles # {} /\ ~Covered =>
       \E p \in Cycles : BetweenWriteAndSave(p) \/ AbortedAfterWrite(p)

C29_Witness ==
  /\ procs[1].pc = "done" /\ procs[2].pc = "done"
  /\ SavedBy(1) = <<"10">>
  /\ SavedBy(2) = <<"9">>
  /\ ckpt = JsonFile("9")
  /\ Covered

(***************************************************************************)
(* C30  A record whose identifier is the empty string is not new for any   *)
(* watermark, the empty watermark of a checkpoint just created among them, *)
(* and no order file is written for it; with the empty watermark every     *)
(* record whose identifier is not empty is new and gets its order file.    *)
(***************************************************************************)
C30_EmptyIdentifierNeverNew ==
  /\ \A w \in PoNumbers \cup TestValues : ~IsNew("", w)
  /\ \A id \in (PoNumbers \cup TestValues) \ {""} : IsNew(id, "")
  /\ \A k \in 1..Len(saved) : saved[k].po # ""
  /\ \A p \in Cycles :
       InFeedLoop(p) /\ procs[p].lastCtrl = "" =>
         SavedBy(p) = SelectSeq(Examined(p), LAMBDA id : id # "")

C30_Witness ==
  \E p \in Cycles :
    /\ procs[p].pc = "done"
    /\ procs[p].before = NoFile
    /\ procs[p].lastCtrl = ""
    /\ procs[p].batch = <<"", "9">>
    /\ SavedBy(p) = <<"9">>

====
